---------------------------- MODULE Spec2Model ----------------------------
(***************************************************************************)
(* The feed/item storage engine of every-rss-feed (RedisServiceLive): the   *)
(* key layout feed:{id}, feed:{id}:items, item:{id}, feeds:directory,       *)
(* trending:{window} and trending:feed:{id}:{window}; the multi-step write  *)
(* operations addFeed, deleteFeed, addFeedItem and trackItemView; and the   *)
(* reads, computed on the store of the moment.                              *)
(* Every await of a Redis command is one atomic step of the calling worker, *)
(* so concurrent requests interleave between commands as they do on the     *)
(* single shared connection.                                                *)
(***************************************************************************)
EXTENDS Integers, Sequences, FiniteSets, TLC

\* ------------------------------------------------------------------ bounds
\* Longest item array of an input feed.
MaxItems == 2
\* Number of crypto.randomUUID() values drawn in one behaviour.
MaxUuid == 2
\* Number of calls started in one behaviour of Spec (overlapping requests).
MaxOps == 2
\* Number of calls started in one behaviour of SeqSpec (one request at a time).
MaxSeqOps == 3
\* Number of calls started in one behaviour of AggSpec (feeds with categories
\* and dated, tagged items, one request at a time).
MaxAggOps == 2
\* Largest page size (limit) the paginated reads are called with.
MaxLimit == 3
\* Number of calls started in one behaviour of TrendSpec (views of stored
\* items, one request at a time).
MaxTrendOps == 4
\* Number of calls started in one behaviour of RaceSpec (overlapping views).
MaxRaceOps == 2
\* Number of calls started in one behaviour of FailSpec (commands may fail,
\* one request at a time).
MaxFailOps == 3
\* Number of calls started in one behaviour of ScopeSpec (feeds stored,
\* viewed and deleted, one request at a time).
MaxScopeOps == 4
\* Number of calls started in one behaviour of AddSpec (overlapping addFeed
\* calls, commands may fail).
MaxAddOps == 2
\* Number of calls started in one behaviour of CountSpec (feeds stored,
\* viewed and deleted while time passes, one request at a time).
MaxCountOps == 3
\* Number of auto-mode executions started in one behaviour of DistSpec.
MaxDistOps == 2
\* Number of execute calls made in one behaviour of PluginSpec.
MaxExecs == 3
\* Items of the small server feeds of PluginSpec.
SmallFeed == 2

\* ---------------------------------------------------------------- universe
Workers == {"w1", "w2"}
\* The worker that serves the requests when they come one at a time.
SeqWorkers == {"w1"}
FeedIds == {"F", "G"}
\* Item IDs a caller may put in item.id.
CallerIds == {"a"}
\* item.id absent: undefined and "" are both falsy in `item.id || randomUUID()`.
NoId == ""
\* Everything of an item but its id (title, link, date, ...), which no write
\* operation looks at.
Bodies == {"x"}
\* The bodies of the feeds the aggregate reads are checked on.
AggBodies == {"x", "y"}
\* published absent: undefined and "" are both falsy in `item.published || item.date`.
NoDate == 0
\* cat.name / cat.term absent (or ""): falsy in `if (cat.name)`.
NoText == ""
\* What the reads look at in an item of the given body: date and published as
\* the time value new Date(string).getTime() gives for them, and the category
\* tags. "x" is dated 2 and carries no tag; "y" is dated 1 but published at 3,
\* and carries one tag of name "AI" and term "ML".
BodyTable(b) ==
  IF b = "y"
    THEN [date |-> 1, published |-> 3, category |-> <<[name |-> "AI", term |-> "ML"]>>]
    ELSE [date |-> 2, published |-> NoDate, category |-> <<>>]

\* The n-th value returned by crypto.randomUUID(): never equal to an earlier one.
Uuid(n) == "u" \o ToString(n)

ItemIds == CallerIds \cup {Uuid(n) : n \in 1..MaxUuid}

\* FeedItem as the caller passes it (id optional).
ItemInputs == [id : CallerIds \cup {NoId}, body : Bodies]

SeqsUpTo(S, n) == UNION {[1..m -> S] : m \in 0..n}

\* Feed as the caller passes it: options.id, the items array and the
\* categories array.
FeedInputs == [id : FeedIds, items : SeqsUpTo(ItemInputs, MaxItems), categories : {<<>>}]

\* The inputs of AggSpec: items of either body, feeds with or without
\* feed-level categories (given out of lexicographic order).
AggItemInputs == [id : CallerIds \cup {NoId}, body : AggBodies]
AggFeedInputs == [id : FeedIds, items : SeqsUpTo(AggItemInputs, MaxItems),
                  categories : {<<>>, <<"Tech", "AI">>}]

\* const timeWindows = ['1h', '24h', '7d', '30d']
WindowOrder == <<"1h", "24h", "7d", "30d">>
Windows == {WindowOrder[i] : i \in DOMAIN WindowOrder}
\* getTimeWindowSeconds(timeWindow)
Seconds1h == 3600
Seconds24h == 86400
Seconds7d == 604800
Seconds30d == 2592000
GetTimeWindowSeconds(timeWindow) ==
  CASE timeWindow = "1h" -> Seconds1h
    [] timeWindow = "24h" -> Seconds24h
    [] timeWindow = "7d" -> Seconds7d
    [] timeWindow = "30d" -> Seconds30d
    [] OTHER -> Seconds24h
\* The instants the clock is read at: the start, and for each window the
\* last instant a view made at the start is inside it and the first it is not.
Times == {0} \cup UNION {{GetTimeWindowSeconds(t), GetTimeWindowSeconds(t) + 1} : t \in Windows}
\* The score of an ID that is not a member of a sorted set.
NoScore == -1

\* ------------------------------------------------------------------- state
VARIABLES
  feedDoc,    \* feed:{id}       -> <<>> (no key) or <<feed document>>
  feedItems,  \* feed:{id}:items -> list of item IDs, head first (<<>> = no key)
  itemDoc,    \* item:{id}       -> <<>> (no key) or <<item document>>
  directory,  \* feeds:directory -> set of feed IDs
  uuidCount,  \* how many UUIDs crypto.randomUUID() has handed out
  call,       \* per worker: the call in progress, its local variables, and
              \* whether another call was in progress at any time during it (ov)
  lastCall,   \* the call that returned last: operation, feed, IDs read, items stored
  prevCall,   \* the call that returned before it: operation, feed, item IDs stored
  opCount,    \* calls started so far
  now,        \* the clock Date.now() reads, in seconds
  trend,      \* trending:{window}            -> sorted set: item ID -> score
  feedTrend,  \* trending:feed:{id}:{window}  -> sorted set: item ID -> score
  viewed,     \* per item ID: how many trackItemView calls were made for it and
              \* the timestamp the latest of them computed
  config,     \* RssSourcePlugin.config: <<>> (null) or <<config>>
  client,     \* RssSourcePlugin.client: <<>> (null) or <<client>>
  remote,     \* per feed ID: how many items the server's feed holds, that is,
              \* what client.getFeedItems(feedId) answers
  lastProcessedState,  \* processedItemIds of the state the caller passes to the
              \* next execute: the nextLastProcessedState of the last success
  execCount,  \* execute calls made so far
  lastExec,   \* the last execute call: its input and its outcome
  emitted,    \* the item keys the execute calls before the last one returned
  forced,     \* whether an execute call so far had forceRefresh set
  ready,      \* whether an initialize succeeded and no shutdown followed yet
  auto,       \* per worker: the auto-mode execution of the distributor plugin
              \* whose requests the worker serves
  distributed \* the results of the auto-mode executions that returned success

vars == <<feedDoc, feedItems, itemDoc, directory, uuidCount, call, lastCall, prevCall, opCount,
          now, trend, feedTrend, viewed,
          config, client, remote, lastProcessedState, execCount, lastExec, emitted, forced, ready,
          auto, distributed>>
hist == <<lastCall, prevCall>>
store == <<feedDoc, feedItems, itemDoc, directory>>
trending == <<now, trend, feedTrend, viewed>>
source == <<config, client, remote, lastProcessedState, execCount, lastExec, emitted, forced, ready>>
distributor == <<auto, distributed>>
plugin == <<source, distributor>>

\* ------------------------------------------------------- Redis command set
\* GET key: <<>> when the key is absent (null), <<v>> otherwise.
Get(m, k) == m[k]
Exists(v) == v # <<>>
\* SET key value. The values are JSON texts; on the fields kept here
\* JSON.parse(JSON.stringify(v)) is v, so the parsed value is stored.
SetKey(m, k, v) == [m EXCEPT ![k] = <<v>>]
\* DEL key of a string key; deleting an absent key is a no-op.
DelKey(m, k) == [m EXCEPT ![k] = <<>>]
\* LRANGE key 0 -1: the whole list, head first; an absent key is the empty list.
LRange(m, k) == m[k]
\* A list insert at the tail (RPUSH) where the code inserts at the head.
RPush(m, k, x) == [m EXCEPT ![k] = @ \o <<x>>]
\* LPUSH key value: insert at the head.
LPush(m, k, x) == [m EXCEPT ![k] = <<x>> \o @]
\* A list delete that drops the head element only (LPOP) and keeps the key.
DelListHead(m, k) == [m EXCEPT ![k] = IF @ = <<>> THEN <<>> ELSE Tail(@)]
\* DEL key of a list key.
DelList(m, k) == [m EXCEPT ![k] = <<>>]
\* A directory insert that is lost.
SAddDropped(S, x) == S
\* SADD / SREM on feeds:directory.
SAdd(S, x) == S \cup {x}
SRem(S, x) == S \ {x}

\* ----------------------------------------------------------- worker record
Idle == [op |-> "none", pc |-> "idle", feedId |-> "", items |-> <<>>, categories |-> <<>>,
         itemIds |-> <<>>, k |-> 0, out |-> <<>>, ov |-> FALSE,
         itemId |-> "", now |-> 0, feedIds |-> <<>>, err |-> <<>>, existingFeed |-> FALSE]

IsIdle(w) == call[w].pc = "idle"
AllIdle == \A w \in Workers : IsIdle(w)

\* What a finished call leaves behind for the record: its operation, its feed,
\* the item IDs it read from the index list (itemIds / oldItemIds), the
\* itemWithId documents it stored, the error it failed with (<<>> when it
\* returned), and the items and categories of its input.
Summary(c) == [op |-> c.op, feedId |-> c.feedId, itemIds |-> c.itemIds, out |-> c.out,
               ov |-> c.ov, itemId |-> c.itemId, now |-> c.now, feedIds |-> c.feedIds,
               err |-> c.err, items |-> c.items, categories |-> c.categories]
NoCall == [op |-> "none", feedId |-> "", itemIds |-> <<>>, out |-> <<>>, ov |-> FALSE,
           itemId |-> "", now |-> 0, feedIds |-> <<>>, err |-> <<>>,
           items |-> <<>>, categories |-> <<>>]

Range(s) == {s[i] : i \in DOMAIN s}
IdsOf(items) == [i \in DOMAIN items |-> items[i].id]

\* The older record keeps the IDs of the stored items, whether the call
\* failed and, for a call that failed, the item IDs it had read from the
\* index list, how many items it had stored, and its input.
Brief(s) == [op |-> s.op, feedId |-> s.feedId, ids |-> Range(IdsOf(s.out)), ov |-> s.ov,
             itemIds |-> IF s.err # <<>> THEN s.itemIds ELSE <<>>, failed |-> s.err # <<>>,
             stored |-> IF s.err # <<>> THEN Len(s.out) ELSE 0,
             items |-> IF s.err # <<>> THEN s.items ELSE <<>>,
             categories |-> IF s.err # <<>> THEN s.categories ELSE <<>>]

\* How requests arrive in a specification: overlapping or one at a time
\* (seq), and how many of them (max).
Overlapping == [seq |-> FALSE, max |-> MaxOps]
OneAtATime == [seq |-> TRUE, max |-> MaxSeqOps]
AggMode == [seq |-> TRUE, max |-> MaxAggOps]
TrendMode == [seq |-> TRUE, max |-> MaxTrendOps]
RaceMode == [seq |-> FALSE, max |-> MaxRaceOps]
FailMode == [seq |-> TRUE, max |-> MaxFailOps]
AddMode == [seq |-> FALSE, max |-> MaxAddOps]
ScopeMode == [seq |-> TRUE, max |-> MaxScopeOps]
CountMode == [seq |-> TRUE, max |-> MaxCountOps]

\* A request reaches worker w. When requests come one at a time, it is
\* admitted only while no call is in progress.
Admit(w, seq) ==
  /\ IsIdle(w)
  /\ seq.seq => AllIdle
  /\ opCount < seq.max

\* Worker w starts the call c; it overlaps every call still in progress.
Start(w, c) ==
  call' = [v \in Workers |->
             IF v = w THEN [c EXCEPT !.ov = ~AllIdle]
             ELSE IF IsIdle(v) THEN call[v] ELSE [call[v] EXCEPT !.ov = TRUE]]

\* The promise of worker w resolves: the worker is free again.
Return(w, c) ==
  /\ call' = [call EXCEPT ![w] = Idle]
  /\ lastCall' = Summary(c)
  /\ prevCall' = Brief(lastCall)

\* The local variables of an auto-mode execution: none is in progress.
NoAuto == [pc |-> "idle", item |-> <<>>, category |-> "", feedId |-> "", feedCreated |-> FALSE,
           itemId |-> ""]
\* The record of an execute call: no call was made yet.
NoExec == [operation |-> <<>>, incoming |-> <<>>, error |-> <<>>, items |-> <<>>,
           processedItemIds |-> <<>>, clientCalls |-> 0]

Init ==
  /\ feedDoc = [f \in FeedIds |-> <<>>]
  /\ feedItems = [f \in FeedIds |-> <<>>]
  /\ itemDoc = [i \in ItemIds |-> <<>>]
  /\ directory = {}
  /\ uuidCount = 0
  /\ call = [w \in Workers |-> Idle]
  /\ lastCall = NoCall
  /\ prevCall = Brief(NoCall)
  /\ opCount = 0
  /\ now = 0
  /\ trend = [t \in Windows |-> [i \in ItemIds |-> NoScore]]
  /\ feedTrend = [f \in FeedIds |-> [t \in Windows |-> [i \in ItemIds |-> NoScore]]]
  /\ viewed = [i \in ItemIds |-> [count |-> 0, last |-> NoScore]]
  /\ config = <<>>
  /\ client = <<>>
  /\ remote = [f \in FeedIds |-> 0]
  /\ lastProcessedState = <<>>
  /\ execCount = 0
  /\ lastExec = NoExec
  /\ emitted = {}
  /\ forced = FALSE
  /\ ready = FALSE
  /\ auto = [w \in Workers |-> NoAuto]
  /\ distributed = {}

\* ---------------------------------------------------------------- addFeed
\* const feedId = feed.options.id; the first command is sent next.
CallAddFeed(w, feed, seq) ==
  /\ Admit(w, seq)
  /\ Start(w, [Idle EXCEPT !.op = "addFeed", !.pc = "af_get",
                           !.feedId = feed.id, !.items = feed.items,
                           !.categories = feed.categories])
  /\ opCount' = opCount + 1
  /\ UNCHANGED <<store, uuidCount, hist, trending, plugin>>

\* A deletion loop that stops one element early.
DelLoopPcShort(itemIds, k, loopPc, exitPc) == IF k + 1 < Len(itemIds) THEN loopPc ELSE exitPc
\* Where the old-item loop (and deleteFeed's loop) goes after k deletions.
DelLoopPc(itemIds, k, loopPc, exitPc) == IF k < Len(itemIds) THEN loopPc ELSE exitPc

\* existingFeed = await client.get(`feed:${feedId}`); if (existingFeed) ...
AddFeedGet(w) ==
  LET c == call[w] IN
  /\ c.pc = "af_get"
  /\ call' = [call EXCEPT ![w].existingFeed = Exists(Get(feedDoc, c.feedId)),
                          ![w].pc = IF Exists(Get(feedDoc, c.feedId)) THEN "af_lrange"
                                    ELSE "af_set"]
  /\ UNCHANGED <<store, uuidCount, hist, opCount, trending, plugin>>

\* oldItemIds = await LRANGE feed:{id}:items 0 -1
AddFeedLRange(w) ==
  LET c == call[w]
      ids == LRange(feedItems, c.feedId) IN
  /\ c.pc = "af_lrange"
  /\ call' = [call EXCEPT ![w].itemIds = ids, ![w].k = 0,
                          ![w].pc = DelLoopPc(ids, 0, "af_delitem", "af_dellist")]
  /\ UNCHANGED <<store, uuidCount, hist, opCount, trending, plugin>>

\* An update that walks the old item IDs without deleting their documents.
AddFeedDelItemKept(w) ==
  LET c == call[w] IN
  /\ c.pc = "af_delitem"
  /\ call' = [call EXCEPT ![w].k = c.k + 1,
                          ![w].pc = DelLoopPc(c.itemIds, c.k + 1, "af_delitem", "af_dellist")]
  /\ UNCHANGED <<store, uuidCount, hist, opCount, trending, plugin>>

\* for (const itemId of oldItemIds) await client.del(`item:${itemId}`)
AddFeedDelItem(w) ==
  LET c == call[w] IN
  /\ c.pc = "af_delitem"
  /\ itemDoc' = DelKey(itemDoc, c.itemIds[c.k + 1])
  /\ call' = [call EXCEPT ![w].k = c.k + 1,
                          ![w].pc = DelLoopPc(c.itemIds, c.k + 1, "af_delitem", "af_dellist")]
  /\ UNCHANGED <<feedDoc, feedItems, directory, uuidCount, hist, opCount, trending, plugin>>

\* await client.del(`feed:${feedId}:items`)
AddFeedDelList(w) ==
  LET c == call[w] IN
  /\ c.pc = "af_dellist"
  /\ feedItems' = DelList(feedItems, c.feedId)
  /\ call' = [call EXCEPT ![w].pc = "af_set"]
  /\ UNCHANGED <<feedDoc, itemDoc, directory, uuidCount, hist, opCount, trending, plugin>>

\* An addFeed that goes on to the directory without storing the document.
AddFeedSetDocSkipped(w) ==
  LET c == call[w] IN
  /\ c.pc = "af_set"
  /\ call' = [call EXCEPT ![w].pc = "af_sadd"]
  /\ UNCHANGED <<store, uuidCount, hist, opCount, trending, plugin>>

\* await client.set(`feed:${feedId}`, JSON.stringify(feed))
AddFeedSetDoc(w) ==
  LET c == call[w] IN
  /\ c.pc = "af_set"
  /\ feedDoc' = SetKey(feedDoc, c.feedId,
                        [id |-> c.feedId, items |-> c.items, categories |-> c.categories])
  /\ call' = [call EXCEPT ![w].pc = "af_sadd"]
  /\ UNCHANGED <<feedItems, itemDoc, directory, uuidCount, hist, opCount, trending, plugin>>

\* await SADD feeds:directory feedId; then the item loop, or return feedId.
AddFeedSAdd(w) ==
  LET c == call[w] IN
  /\ c.pc = "af_sadd"
  /\ directory' = SAdd(directory, c.feedId)
  /\ IF c.items = <<>>
       THEN Return(w, c)
       ELSE /\ call' = [call EXCEPT ![w].pc = "af_setitem"]
            /\ UNCHANGED hist
  /\ UNCHANGED <<feedDoc, feedItems, itemDoc, uuidCount, opCount, trending, plugin>>

\* const itemId = item.id || crypto.randomUUID()
NeedsUuid(item) == item.id = NoId
ItemIdOf(item, n) == IF NeedsUuid(item) THEN Uuid(n + 1) ELSE item.id
\* const itemWithId = { ...item, id: itemId }
ItemWithId(item, n) == [id |-> ItemIdOf(item, n), body |-> item.body]

\* itemWithId of the next input item; await client.set(`item:${itemId}`, ...)
AddFeedSetItem(w) ==
  LET c == call[w]
      item == c.items[Len(c.out) + 1]
      itemWithId == ItemWithId(item, uuidCount) IN
  /\ c.pc = "af_setitem"
  /\ NeedsUuid(item) => uuidCount < MaxUuid
  /\ uuidCount' = IF NeedsUuid(item) THEN uuidCount + 1 ELSE uuidCount
  /\ itemDoc' = SetKey(itemDoc, itemWithId.id, itemWithId)
  /\ call' = [call EXCEPT ![w].out = Append(c.out, itemWithId), ![w].pc = "af_lpush"]
  /\ UNCHANGED <<feedDoc, feedItems, directory, hist, opCount, trending, plugin>>

\* await LPUSH feed:{id}:items itemId; next item, or return feedId.
AddFeedLPush(w) ==
  LET c == call[w] IN
  /\ c.pc = "af_lpush"
  /\ feedItems' = LPush(feedItems, c.feedId, c.out[Len(c.out)].id)
  /\ IF Len(c.out) = Len(c.items)
       THEN Return(w, c)
       ELSE /\ call' = [call EXCEPT ![w].pc = "af_setitem"]
            /\ UNCHANGED hist
  /\ UNCHANGED <<feedDoc, itemDoc, directory, uuidCount, opCount, trending, plugin>>

AddFeedStep(w) ==
  \/ AddFeedGet(w)
  \/ AddFeedLRange(w)
  \/ AddFeedDelItem(w)
  \/ AddFeedDelList(w)
  \/ AddFeedSetDoc(w)
  \/ AddFeedSAdd(w)
  \/ AddFeedSetItem(w)
  \/ AddFeedLPush(w)

\* -------------------------------------------------------------- deleteFeed
CallDeleteFeed(w, f, seq) ==
  /\ Admit(w, seq)
  /\ Start(w, [Idle EXCEPT !.op = "deleteFeed", !.pc = "df_lrange", !.feedId = f])
  /\ opCount' = opCount + 1
  /\ UNCHANGED <<store, uuidCount, hist, trending, plugin>>

\* A deleteFeed that removes the index list as soon as it has read it, before
\* the item documents.
DeleteFeedListFirst(w) ==
  LET c == call[w]
      ids == LRange(feedItems, c.feedId) IN
  /\ c.pc = "df_lrange"
  /\ feedItems' = DelList(feedItems, c.feedId)
  /\ call' = [call EXCEPT ![w].itemIds = ids, ![w].k = 0,
                          ![w].pc = DelLoopPc(ids, 0, "df_delitem", "df_dellist")]
  /\ UNCHANGED <<feedDoc, itemDoc, directory, uuidCount, hist, opCount, trending, plugin>>

\* itemIds = await LRANGE feed:{id}:items 0 -1
DeleteFeedLRange(w) ==
  LET c == call[w]
      ids == LRange(feedItems, c.feedId) IN
  /\ c.pc = "df_lrange"
  /\ call' = [call EXCEPT ![w].itemIds = ids, ![w].k = 0,
                          ![w].pc = DelLoopPc(ids, 0, "df_delitem", "df_dellist")]
  /\ UNCHANGED <<store, uuidCount, hist, opCount, trending, plugin>>

\* for (const itemId of itemIds) await client.del(`item:${itemId}`)
DeleteFeedDelItem(w) ==
  LET c == call[w] IN
  /\ c.pc = "df_delitem"
  /\ itemDoc' = DelKey(itemDoc, c.itemIds[c.k + 1])
  /\ call' = [call EXCEPT ![w].k = c.k + 1,
                          ![w].pc = DelLoopPc(c.itemIds, c.k + 1, "df_delitem", "df_dellist")]
  /\ UNCHANGED <<feedDoc, feedItems, directory, uuidCount, hist, opCount, trending, plugin>>

\* await client.del(`feed:${feedId}:items`)
DeleteFeedDelList(w) ==
  LET c == call[w] IN
  /\ c.pc = "df_dellist"
  /\ feedItems' = DelList(feedItems, c.feedId)
  /\ call' = [call EXCEPT ![w].pc = "df_deldoc"]
  /\ UNCHANGED <<feedDoc, itemDoc, directory, uuidCount, hist, opCount, trending, plugin>>

\* await client.del(`feed:${feedId}`)
DeleteFeedDelDoc(w) ==
  LET c == call[w] IN
  /\ c.pc = "df_deldoc"
  /\ feedDoc' = DelKey(feedDoc, c.feedId)
  /\ call' = [call EXCEPT ![w].pc = "df_srem"]
  /\ UNCHANGED <<feedItems, itemDoc, directory, uuidCount, hist, opCount, trending, plugin>>

\* await SREM feeds:directory feedId; the call returns.
DeleteFeedSRem(w) ==
  LET c == call[w] IN
  /\ c.pc = "df_srem"
  /\ directory' = SRem(directory, c.feedId)
  /\ Return(w, c)
  /\ UNCHANGED <<feedDoc, feedItems, itemDoc, uuidCount, opCount, trending, plugin>>

DeleteFeedStep(w) ==
  \/ DeleteFeedLRange(w)
  \/ DeleteFeedDelItem(w)
  \/ DeleteFeedDelList(w)
  \/ DeleteFeedDelDoc(w)
  \/ DeleteFeedSRem(w)

\* ------------------------------------------------------------- addFeedItem
\* itemId and itemWithId are computed before the first await.
CallAddFeedItem(w, f, item, seq) ==
  /\ Admit(w, seq)
  /\ NeedsUuid(item) => uuidCount < MaxUuid
  /\ uuidCount' = IF NeedsUuid(item) THEN uuidCount + 1 ELSE uuidCount
  /\ Start(w, [Idle EXCEPT !.op = "addFeedItem", !.pc = "ai_set",
                           !.feedId = f, !.items = <<item>>,
                           !.out = <<ItemWithId(item, uuidCount)>>])
  /\ opCount' = opCount + 1
  /\ UNCHANGED <<store, hist, trending, plugin>>

\* await client.set(`item:${itemId}`, JSON.stringify(itemWithId))
AddFeedItemSet(w) ==
  LET c == call[w] IN
  /\ c.pc = "ai_set"
  /\ itemDoc' = SetKey(itemDoc, c.out[1].id, c.out[1])
  /\ call' = [call EXCEPT ![w].pc = "ai_lpush"]
  /\ UNCHANGED <<feedDoc, feedItems, directory, uuidCount, hist, opCount, trending, plugin>>

\* await LPUSH feed:{feedId}:items itemId; return itemId.
AddFeedItemLPush(w) ==
  LET c == call[w] IN
  /\ c.pc = "ai_lpush"
  /\ feedItems' = LPush(feedItems, c.feedId, c.out[1].id)
  /\ Return(w, c)
  /\ UNCHANGED <<feedDoc, itemDoc, directory, uuidCount, opCount, trending, plugin>>

AddFeedItemStep(w) ==
  \/ AddFeedItemSet(w)
  \/ AddFeedItemLPush(w)

\* ------------------------------------------------------------------- reads
\* getFeed(feedId): the document or null.
GetFeed(f) == Get(feedDoc, f)

\* A lookup that answers only for the IDs in the named feed's index list.
GetFeedItemOfFeed(f, itemId) ==
  IF itemId \in {LRange(feedItems, f)[i] : i \in DOMAIN LRange(feedItems, f)}
    THEN Get(itemDoc, itemId) ELSE <<>>
\* getFeedItem(feedId, itemId): the feedId takes no part in the lookup.
GetFeedItem(f, itemId) == Get(itemDoc, itemId)

\* A read loop that gives up at the first key that is absent.
RECURSIVE ResolveUntilMissing(_, _)
ResolveUntilMissing(m, ids) ==
  IF ids = <<>> \/ ~Exists(Get(m, Head(ids))) THEN <<>>
  ELSE <<Get(m, Head(ids))[1]>> \o ResolveUntilMissing(m, Tail(ids))

\* The read loop shared by the list operations: GET each key in order and
\* keep the documents that exist.
RECURSIVE Resolve(_, _)
Resolve(m, ids) ==
  IF ids = <<>> THEN <<>>
  ELSE LET d == Get(m, Head(ids)) IN
       (IF Exists(d) THEN <<d[1]>> ELSE <<>>) \o Resolve(m, Tail(ids))

\* getFeedItems(feedId).
GetFeedItems(f) == Resolve(itemDoc, LRange(feedItems, f))

\* SMEMBERS returns the members in an order Redis does not specify.
SMembers(S) == {s \in [1..Cardinality(S) -> S] : \A i, j \in DOMAIN s : i # j => s[i] # s[j]}

\* getFeeds(): one result per order SMEMBERS may answer in.
GetFeeds == {Resolve(feedDoc, order) : order \in SMembers(directory)}

\* --------------------------------------------------------- aggregate reads
\* options?.limit || 50: the page size when the caller gives none (or 0).
DefaultLimit == 50
\* options.since absent: `if (options?.since)` is false.
NoSince == 0

Min(a, b) == IF a < b THEN a ELSE b

\* new Date(item.published || item.date).getTime()
EffectiveDate(item) ==
  LET b == BodyTable(item.body) IN
  IF b.published # NoDate THEN b.published ELSE b.date

\* The scan shared by the aggregate reads: for each feed ID, in the order
\* SMEMBERS answered, LRANGE its list, GET each item and keep those that exist.
RECURSIVE Encounter(_)
Encounter(order) ==
  IF order = <<>> THEN <<>>
  ELSE Resolve(itemDoc, LRange(feedItems, Head(order))) \o Encounter(Tail(order))

\* A sort that puts an element in front of the elements it ties with.
RECURSIVE SortTiesReversed(_)
SortTiesReversed(s) ==
  IF s = <<>> THEN <<>>
  ELSE LET n == Len(s)
           rest == SortTiesReversed(SubSeq(s, 1, n - 1))
           k == Cardinality({i \in DOMAIN rest : EffectiveDate(rest[i]) > EffectiveDate(s[n])})
       IN SubSeq(rest, 1, k) \o <<s[n]>> \o SubSeq(rest, k + 1, Len(rest))

\* items.sort((a, b) => dateB.getTime() - dateA.getTime()): Array.prototype.sort
\* is stable, so an element goes behind every element dated no earlier.
RECURSIVE SortByDate(_)
SortByDate(s) ==
  IF s = <<>> THEN <<>>
  ELSE LET n == Len(s)
           rest == SortByDate(SubSeq(s, 1, n - 1))
           k == Cardinality({i \in DOMAIN rest : EffectiveDate(rest[i]) >= EffectiveDate(s[n])})
       IN SubSeq(rest, 1, k) \o <<s[n]>> \o SubSeq(rest, k + 1, Len(rest))

\* A slice that leaves out the last element of the page.
SliceShort(s, start, end) == SubSeq(s, start + 1, Min(end - 1, Len(s)))
\* Array.prototype.slice(start, end) for 0 <= start <= end.
Slice(s, start, end) == SubSeq(s, start + 1, Min(end, Len(s)))

\* const start = options?.offset || 0; const end = start + (options?.limit || 50)
Page(s, options) ==
  LET start == options.offset
      end == start + (IF options.limit # 0 THEN options.limit ELSE DefaultLimit)
  IN Slice(s, start, end)

\* A since filter that also drops the items dated exactly sinceTimestamp.
PassesSinceStrict(item, since) == since = NoSince \/ EffectiveDate(item) > since
\* if (options?.since) { if (itemDate < sinceDate) continue; }
PassesSince(item, since) == since = NoSince \/ ~(EffectiveDate(item) < since)

\* getAllFeedItems(options), when SMEMBERS answers in the given order.
GetAllFeedItems(order, options) ==
  LET Keep(item) == PassesSince(item, options.since)
  IN Page(SortByDate(SelectSeq(Encounter(order), Keep)), options)

\* The texts one item contributes: cat.name and cat.term of each tag, when truthy.
TagTexts(item) ==
  UNION {{cat.name, cat.term} \ {NoText} : cat \in Range(BodyTable(item.body).category)}

\* The category strings of this model in the order Array.prototype.sort()
\* puts them (UTF-16 code units: upper case before lower case).
CategoryOrder == <<"AI", "ML", "Tech", "ai">>
Categories == Range(CategoryOrder)
\* Array.from(set).sort()
SortedTexts(S) == LET In(c) == c \in S IN SelectSeq(CategoryOrder, In)

\* What getAllCategories and getStats collect from one stored feed document:
\* feed.categories and the tags of feed.items, the items embedded in the document.
FeedTexts(feed) ==
  Range(feed.categories) \cup UNION {TagTexts(item) : item \in Range(feed.items)}

\* getAllCategories(), when SMEMBERS answers in the given order.
GetAllCategories(order) ==
  SortedTexts(UNION {FeedTexts(feed) : feed \in Range(Resolve(feedDoc, order))})

\* A tag test that looks at cat.name only.
HasCategoryByName(item, category) ==
  \E cat \in Range(BodyTable(item.body).category) : cat.name = category
\* item.category?.some(cat => cat.name === category || cat.term === category)
HasCategory(item, category) ==
  \E cat \in Range(BodyTable(item.body).category) :
    cat.name = category \/ cat.term = category

\* getItemsByCategory(category, options), when SMEMBERS answers in the given order.
GetItemsByCategory(order, category, options) ==
  LET Keep(item) == HasCategory(item, category)
  IN Page(SortByDate(SelectSeq(Encounter(order), Keep)), options)

\* getFeedsByCategory(category), when SMEMBERS answers in the given order.
GetFeedsByCategory(order, category) ==
  LET Keep(feed) == \/ category \in Range(feed.categories)
                    \/ \E item \in Range(feed.items) : HasCategory(item, category)
  IN SelectSeq(Resolve(feedDoc, order), Keep)

RECURSIVE SumLen(_)
SumLen(order) ==
  IF order = <<>> THEN 0
  ELSE Len(LRange(feedItems, Head(order))) + SumLen(Tail(order))

\* getStats(), when SMEMBERS answers in the given order.
GetStats(order) ==
  [totalFeeds |-> Len(order),
   totalItems |-> SumLen(order),
   totalCategories |->
     Cardinality(UNION {FeedTexts(feed) : feed \in Range(Resolve(feedDoc, order))})]

\* ---------------------------------------------------------------- trending
\* Time is counted in seconds: Date.now() is 1000 times the clock, and the
\* cutoff now - windowSeconds * 1000 is 1000 times now - windowSeconds.
\* Time passes: the clock moves to a later instant.
Tick ==
  /\ \E t \in Times : t > now /\ now' = t
  /\ UNCHANGED <<store, uuidCount, call, hist, opCount, trend, feedTrend, viewed, plugin>>

\* Time passes between two requests. When requests come one at a time, a
\* call reads the clock once, as it starts, so that time passing during the
\* call shows only to the calls after it.
TickBetweenCalls == AllIdle /\ Tick

\* A ZADD that adds the new score to the member's old one (ZINCRBY).
ZAddIncr(z, score, member) ==
  [z EXCEPT ![member] = IF @ = NoScore THEN score ELSE @ + score]
\* ZADD key score member: the member's score is set to the new score.
ZAdd(z, score, member) == [z EXCEPT ![member] = score]

\* The item IDs in lexicographic order, lowest first.
ItemIdOrder == <<"a">> \o [n \in 1..MaxUuid |-> Uuid(n)]
IdRank(id) == CHOOSE i \in DOMAIN ItemIdOrder : ItemIdOrder[i] = id

\* A ranking by rank alone, whatever the scores.
ZBeforeByMember(z, m, n) == IdRank(m) > IdRank(n)
\* Member m comes before member n in a reverse range: higher score first,
\* equal scores in reverse lexicographic order of the members.
ZBefore(z, m, n) == z[m] > z[n] \/ (z[m] = z[n] /\ IdRank(m) > IdRank(n))

\* The members of S in reverse-range order.
RECURSIVE ZRevOrder(_, _)
ZRevOrder(z, S) ==
  IF S = {} THEN <<>>
  ELSE LET first == CHOOSE m \in S : \A n \in S \ {m} : ZBefore(z, m, n)
       IN <<first>> \o ZRevOrder(z, S \ {first})

\* A range whose lower end is exclusive.
InRangeExclusive(score, min) == score # NoScore /\ score > min
\* A member's score is in [min, +inf].
InRange(score, min) == score # NoScore /\ score >= min

\* A reverse range that ignores its LIMIT.
ZRevRangeByScoreUnlimited(z, min, count) ==
  ZRevOrder(z, {m \in DOMAIN z : InRange(z[m], min)})

\* ZREVRANGEBYSCORE key +inf min LIMIT 0 count
ZRevRangeByScore(z, min, count) ==
  LET all == ZRevOrder(z, {m \in DOMAIN z : InRange(z[m], min)})
  IN SubSeq(all, 1, Min(count, Len(all)))

\* options?.limit || 10
DefaultTrendingLimit == 10
TrendingLimit(options) == IF options.limit # 0 THEN options.limit ELSE DefaultTrendingLimit
\* const cutoffTime = now - (windowSeconds * 1000)
CutoffTime(timeWindow) == now - GetTimeWindowSeconds(timeWindow)

\* getTrendingItems(timeWindow, options), called now.
GetTrendingItems(timeWindow, options) ==
  Resolve(itemDoc, ZRevRangeByScore(trend[timeWindow], CutoffTime(timeWindow),
                                    TrendingLimit(options)))

\* getFeedTrending(feedId, timeWindow, options), called now.
GetFeedTrending(f, timeWindow, options) ==
  Resolve(itemDoc, ZRevRangeByScore(feedTrend[f][timeWindow], CutoffTime(timeWindow),
                                    TrendingLimit(options)))

\* const now = Date.now(); the first ZADD is sent next.
CallTrackItemView(w, itemId, seq) ==
  /\ Admit(w, seq)
  /\ Start(w, [Idle EXCEPT !.op = "trackItemView", !.pc = "tv_zadd",
                           !.itemId = itemId, !.now = now])
  /\ opCount' = opCount + 1
  /\ viewed' = [viewed EXCEPT ![itemId] = [count |-> @.count + 1, last |-> now]]
  /\ UNCHANGED <<store, uuidCount, hist, now, trend, feedTrend, plugin>>

\* for (const window of timeWindows) await ZADD trending:{window} now itemId
TrackItemViewZAdd(w) ==
  LET c == call[w]
      window == WindowOrder[c.k + 1] IN
  /\ c.pc = "tv_zadd"
  /\ trend' = [trend EXCEPT ![window] = ZAdd(@, c.now, c.itemId)]
  /\ call' = [call EXCEPT ![w].k = IF c.k + 1 < Len(WindowOrder) THEN c.k + 1 ELSE 0,
                          ![w].pc = IF c.k + 1 < Len(WindowOrder) THEN "tv_zadd"
                                    ELSE "tv_smembers"]
  /\ UNCHANGED <<store, uuidCount, hist, opCount, now, feedTrend, viewed, plugin>>

\* feedIds = await SMEMBERS feeds:directory; the loop over them, or return.
TrackItemViewSMembers(w) ==
  LET c == call[w] IN
  /\ c.pc = "tv_smembers"
  /\ \E order \in SMembers(directory) :
       IF order = <<>>
         THEN Return(w, c)
         ELSE /\ call' = [call EXCEPT ![w].feedIds = order, ![w].k = 0, ![w].pc = "tv_lrange"]
              /\ UNCHANGED hist
  /\ UNCHANGED <<store, uuidCount, opCount, trending, plugin>>

\* A scan that takes the first feed ID of the directory, whatever its list holds.
TrackItemViewLRangeAnyFeed(w) ==
  LET c == call[w]
      feedId == c.feedIds[c.k + 1] IN
  /\ c.pc = "tv_lrange"
  /\ call' = [call EXCEPT ![w].feedId = feedId, ![w].k = 0, ![w].pc = "tv_feedzadd"]
  /\ UNCHANGED <<store, uuidCount, hist, opCount, trending, plugin>>

\* itemIds = await LRANGE feed:{feedId}:items 0 -1; if (itemIds.includes(itemId))
\* the per-feed loop follows; else the next feed ID, or return after the last.
TrackItemViewLRange(w) ==
  LET c == call[w]
      feedId == c.feedIds[c.k + 1]
      itemIds == LRange(feedItems, feedId) IN
  /\ c.pc = "tv_lrange"
  /\ IF c.itemId \in Range(itemIds)
       THEN /\ call' = [call EXCEPT ![w].feedId = feedId, ![w].k = 0, ![w].pc = "tv_feedzadd"]
            /\ UNCHANGED hist
       ELSE IF c.k + 1 < Len(c.feedIds)
         THEN /\ call' = [call EXCEPT ![w].k = c.k + 1]
              /\ UNCHANGED hist
         ELSE Return(w, c)
  /\ UNCHANGED <<store, uuidCount, opCount, trending, plugin>>

\* for (const window of timeWindows)
\*   await ZADD trending:feed:{feedId}:{window} now itemId
\* and then break: return.
TrackItemViewFeedZAdd(w) ==
  LET c == call[w]
      window == WindowOrder[c.k + 1] IN
  /\ c.pc = "tv_feedzadd"
  /\ feedTrend' = [feedTrend EXCEPT ![c.feedId][window] = ZAdd(@, c.now, c.itemId)]
  /\ IF c.k + 1 < Len(WindowOrder)
       THEN /\ call' = [call EXCEPT ![w].k = c.k + 1]
            /\ UNCHANGED hist
       ELSE Return(w, c)
  /\ UNCHANGED <<store, uuidCount, opCount, now, trend, viewed, plugin>>

TrackItemViewStep(w) ==
  \/ TrackItemViewZAdd(w)
  \/ TrackItemViewSMembers(w)
  \/ TrackItemViewLRange(w)
  \/ TrackItemViewFeedZAdd(w)

\* ---------------------------------------------------------------- failures
\* What a rejected client promise carries.
Causes == {"ECONNRESET"}

\* catch: (error) => new RedisError({ message: `Failed to ... ${id}`, cause: error })
FailureMessage(c) ==
  CASE c.op = "addFeed" -> "Failed to add feed " \o c.feedId
    [] c.op = "deleteFeed" -> "Failed to delete feed " \o c.feedId
    [] c.op = "addFeedItem" -> "Failed to add item to feed " \o c.feedId
    [] c.op = "trackItemView" -> "Failed to track view for item " \o c.itemId
RedisError(message, cause) == [tag |-> "RedisError", message |-> message, cause |-> cause]

\* A failure handler that undoes the item documents the call has stored.
FailRolledBack(w, cause) ==
  LET c == call[w] IN
  /\ ~IsIdle(w)
  /\ itemDoc' = [i \in ItemIds |-> IF i \in Range(IdsOf(c.out)) THEN <<>> ELSE itemDoc[i]]
  /\ Return(w, [c EXCEPT !.err = <<RedisError(FailureMessage(c), cause)>>])
  /\ UNCHANGED <<feedDoc, feedItems, directory, uuidCount, opCount, trending, plugin>>

\* The command worker w is awaiting is rejected with cause: the command has no
\* effect, the rejection leaves the try block, and the call ends with the
\* RedisError of its catch handler. Nothing is sent after it.
Fail(w, cause) ==
  LET c == call[w] IN
  /\ ~IsIdle(w)
  /\ Return(w, [c EXCEPT !.err = <<RedisError(FailureMessage(c), cause)>>])
  /\ UNCHANGED <<store, uuidCount, opCount, trending, plugin>>

\* ---------------------------------------------------------- API procedures
TRPCError(code, message) == [tag |-> "TRPCError", code |-> code, message |-> message]

\* The catch block of the getFeedItem procedure: whatever was thrown inside
\* the try block is thrown again as an INTERNAL_SERVER_ERROR, a RedisError
\* with its own message, anything else with its message after a prefix.
GetFeedItemCatch(error) ==
  IF error.tag = "RedisError"
    THEN TRPCError("INTERNAL_SERVER_ERROR", error.message)
    ELSE TRPCError("INTERNAL_SERVER_ERROR", "Failed to get feed item: " \o error.message)

\* appRouter.getFeedItem({feedId, itemId}) when both reads are answered:
\* [item, feed] are read; inside the try block a missing feed throws NOT_FOUND,
\* and what the try block throws goes through the catch block. error is <<>>
\* when the procedure returns { item, feedTitle }.
AppRouterGetFeedItem(feedId, itemId) ==
  LET item == GetFeedItem(feedId, itemId)
      feed == GetFeed(feedId)
      thrown == IF ~Exists(feed)
                  THEN <<TRPCError("NOT_FOUND", "Feed " \o feedId \o " not found")>>
                  ELSE <<>>
  IN IF thrown = <<>>
       THEN [item |-> item, error |-> <<>>]
       ELSE [item |-> <<>>, error |-> <<GetFeedItemCatch(thrown[1])>>]

\* ----------------------------------------------------------- source plugin
\* RssSourcePlugin (packages/source-plugin): initialize, execute, shutdown.
\* The plugin polls the server's feeds through its client; the store of the
\* server is left alone by every action of this section.

\* Array.from(updatedProcessedIds).slice(-1000)
ProcessedIdsKept == 1000
\* limit: z.number().min(1).max(1000)
LimitMax == 1000

\* The i-th item the server added to feed f. Items of F carry an id only; in
\* the other feeds the first item carries a guid next to its id and the
\* second one neither, only the link every item has.
RemoteItem(f, i) ==
  IF f = "F" THEN [guid |-> NoText, id |-> ToString(i), link |-> "l"]
  ELSE IF i = 1 THEN [guid |-> "g1", id |-> "1", link |-> "l"]
  ELSE [guid |-> NoText, id |-> NoText, link |-> "k" \o ToString(i)]

\* client.getFeedItems(feedId): the feed's items, newest first.
ClientGetFeedItems(f) == [k \in 1..remote[f] |-> RemoteItem(f, remote[f] + 1 - k)]

\* item.guid || item.id || item.link
ItemKey(item) ==
  IF item.guid # NoText THEN item.guid
  ELSE IF item.id # NoText THEN item.id
  ELSE item.link

\* transformFeedItemToSourceItem(item)
TransformFeedItemToSourceItem(item) == [externalId |-> ItemKey(item), raw |-> item]

\* array.slice(0, n)
SliceTo(s, n) == SubSeq(s, 1, IF n < Len(s) THEN n ELSE Len(s))
\* array.slice(-n)
SliceLast(s, n) == SubSeq(s, IF Len(s) > n THEN Len(s) - n + 1 ELSE 1, Len(s))

\* new Set(array): a Set keeps insertion order and ignores a value it already
\* holds, so what is left of the array is the first occurrence of each value.
SetOf(array) ==
  IF Cardinality(Range(array)) = Len(array) THEN array
  ELSE LET first == SelectSeq([k \in DOMAIN array |-> k],
                      LAMBDA k : \A j \in 1..(k - 1) : array[j] # array[k])
       IN [k \in DOMAIN first |-> array[first[k]]]

\* newItems.forEach(item => { if (itemId) updatedProcessedIds.add(itemId) })
AddProcessed(ids, newItems) ==
  LET keys == [k \in DOMAIN newItems |-> ItemKey(newItems[k])]
  IN SetOf(ids \o SelectSeq(keys, LAMBDA key : key # NoText))

\* The new items of one feed: all of them with forceRefresh, else those whose
\* key is not among the processed IDs; at most limit of them.
NewItems(feedData, operation, ids) ==
  LET held == Range(ids) IN
  IF operation.forceRefresh
    THEN SliceTo(feedData, operation.limit)
    ELSE SliceTo(SelectSeq(feedData,
                   LAMBDA item : ItemKey(item) # NoText /\ ItemKey(item) \notin held),
                 operation.limit)

\* for (const feedId of operation.feedIds) { ... }: the feeds from the k-th on,
\* with allNewItems and updatedProcessedIds as they stand; the loop breaks once
\* allNewItems holds limit items, cut to limit.
RECURSIVE PollFeeds(_, _, _, _)
PollFeeds(operation, k, allNewItems, ids) ==
  IF k > Len(operation.feedIds) THEN [items |-> allNewItems, ids |-> ids, fetched |-> k - 1]
  ELSE
    LET newItems == NewItems(ClientGetFeedItems(operation.feedIds[k]), operation, ids)
        added == AddProcessed(ids, newItems)
        all == allNewItems \o newItems
    IN IF Len(all) >= operation.limit
         THEN [items |-> SliceTo(all, operation.limit), ids |-> added, fetched |-> k]
         ELSE PollFeeds(operation, k + 1, all, added)

\* executeGetFeedItems(operation, state): the output of a call no fetch of which
\* fails.
ExecuteGetFeedItems(operation, processedItemIds) ==
  LET polled == PollFeeds(operation, 1, <<>>, SetOf(processedItemIds))
  IN [items |-> [k \in DOMAIN polled.items |-> TransformFeedItemToSourceItem(polled.items[k])],
      processedItemIds |-> SliceLast(polled.ids, ProcessedIdsKept),
      fetched |-> polled.fetched]

PluginExecutionError(message, retryable) == [name |-> "PluginExecutionError", message |-> message, retryable |-> retryable]
ConfigurationError(message) == [name |-> "ConfigurationError", message |-> message]

ConfigInputs == {[apiKey |-> NoText], [apiKey |-> "key"]}
Operations ==
  [feedIds : {<<"F">>, <<"F", "G">>, <<"G", "F">>}, limit : {1, SmallFeed, LimitMax}, forceRefresh : BOOLEAN]
\* Polls of as many new items as a call may ask for.
PollOperations == {operation \in Operations : operation.limit = LimitMax /\ ~operation.forceRefresh}

\* initialize(config): the API key check, self.config = config, the client is
\* constructed (or the constructor throws), then the health check is awaited.
Initialize(cfg, constructed, healthy) ==
  /\ IF cfg.apiKey = NoText
       THEN UNCHANGED <<config, client, ready>>
       ELSE /\ config' = <<cfg>>
            /\ client' = IF constructed THEN <<"RssClient">> ELSE client
            /\ ready' = IF constructed /\ healthy THEN TRUE ELSE ready
  /\ UNCHANGED <<remote, lastProcessedState, execCount, lastExec, emitted, forced>>
  /\ UNCHANGED <<store, uuidCount, call, hist, opCount, trending, distributor>>

\* shutdown(): self.config = null; self.client = null.
Shutdown ==
  /\ config' = <<>>
  /\ client' = <<>>
  /\ ready' = FALSE
  /\ UNCHANGED <<remote, lastProcessedState, execCount, lastExec, emitted, forced>>
  /\ UNCHANGED <<store, uuidCount, call, hist, opCount, trending, distributor>>

\* execute({searchOptions: operation, lastProcessedState}) with the state the
\* last successful call returned: the "Plugin not initialized" check, then
\* executeGetFeedItems, in which the fetch of the failAt-th feed fails (none
\* fails when failAt is 0).
Execute(operation, failAt) ==
  LET out == ExecuteGetFeedItems(operation, lastProcessedState)
      input == [operation |-> operation, incoming |-> lastProcessedState]
  IN
  /\ execCount < MaxExecs
  /\ execCount' = execCount + 1
  /\ forced' = (forced \/ operation.forceRefresh)
  /\ emitted' = emitted \cup {lastExec.items[k].externalId : k \in DOMAIN lastExec.items}
  /\ IF config = <<>> \/ client = <<>>
       THEN /\ lastExec' = [NoExec EXCEPT !.operation = operation, !.incoming = lastProcessedState,
                              !.error = <<PluginExecutionError("Plugin not initialized", FALSE)>>]
            /\ UNCHANGED lastProcessedState
       ELSE IF failAt \in 1..out.fetched
         THEN /\ lastExec' = [NoExec EXCEPT !.operation = operation, !.incoming = lastProcessedState,
                                !.error = <<PluginExecutionError("Feed fetch failed for " \o operation.feedIds[failAt], TRUE)>>,
                                !.clientCalls = failAt]
              /\ UNCHANGED lastProcessedState
         ELSE /\ lastExec' = [operation |-> operation, incoming |-> lastProcessedState, error |-> <<>>,
                              items |-> out.items, processedItemIds |-> out.processedItemIds,
                              clientCalls |-> out.fetched]
              /\ lastProcessedState' = out.processedItemIds
  /\ UNCHANGED <<config, client, remote, ready>>
  /\ UNCHANGED <<store, uuidCount, call, hist, opCount, trending, distributor>>

\* Between two polls the server's feed f grows to n items.
ServerFeedGrows(f, n) ==
  /\ n > remote[f]
  /\ remote' = [remote EXCEPT ![f] = n]
  /\ UNCHANGED <<config, client, lastProcessedState, execCount, lastExec, emitted, forced, ready>>
  /\ UNCHANGED <<store, uuidCount, call, hist, opCount, trending, distributor>>

\* The plugin over small feeds: its whole life cycle, any operation, fetches
\* that fail.
PluginNext ==
  \/ \E cfg \in ConfigInputs, constructed \in BOOLEAN, healthy \in BOOLEAN :
       Initialize(cfg, constructed, healthy)
  \/ Shutdown
  \/ \E operation \in Operations : \E failAt \in 0..Len(operation.feedIds) :
       Execute(operation, failAt)
  \/ \E f \in FeedIds, n \in 1..SmallFeed : ServerFeedGrows(f, n)

PluginSpec == Init /\ [][PluginNext]_vars

\* The initialized plugin polling a feed that holds more items than the
\* processed IDs a state keeps.
PollNext ==
  \/ \E cfg \in ConfigInputs : Initialize(cfg, TRUE, TRUE)
  \/ \E operation \in PollOperations : Execute(operation, 0)
  \/ \E f \in FeedIds : ServerFeedGrows(f, IF f = "F" THEN ProcessedIdsKept + 1 ELSE SmallFeed)

PollSpec == Init /\ [][PollNext]_vars

\* ------------------------------------------------------ distributor plugin
\* RssDistributorPlugin.executeAutoMode (packages/distributor-plugin). Each
\* execution sends its requests to the server one after the other; worker w
\* serves the requests of the execution auto[w].

\* extractCategory(item): the first category's term || name || "general".
ExtractCategory(item) ==
  IF Len(item.category) > 0
    THEN LET firstCategory == item.category[1] IN
         IF firstCategory.term # NoText THEN firstCategory.term
         ELSE IF firstCategory.name # NoText THEN firstCategory.name
         ELSE "general"
    ELSE "general"

\* generateFeedId(category): lower case, every run of other characters than
\* a-z0-9 a "-", no "-" at either end. "AI News" and "ai news" both give
\* "ai-news", "Tech" gives "tech"; the store's feeds F and G are the feeds of
\* these two IDs.
GenerateFeedId(category) ==
  CASE category \in {"AI News", "ai news"} -> "F"
    [] category = "Tech" -> "G"

\* The items handed to the plugin: a body and the category array.
DistItems ==
  [body : Bodies,
   category : {<<[term |-> "AI News", name |-> NoText]>>,
               <<[term |-> NoText, name |-> "ai news"], [term |-> "Tech", name |-> NoText]>>,
               <<[term |-> "Tech", name |-> "AI News"]>>}]

\* createFeedFromTemplate(item, feedTemplate): no items, the one category.
CreateFeedFromTemplate(item) ==
  [id |-> GenerateFeedId(ExtractCategory(item)), items |-> <<>>,
   categories |-> <<ExtractCategory(item)>>]

\* executeAutoMode(item): category and feedId are computed; getFeed is sent.
ExecuteAutoMode(w, item) ==
  /\ auto[w].pc = "idle"
  /\ IsIdle(w)
  /\ opCount < MaxDistOps
  /\ opCount' = opCount + 1
  /\ auto' = [auto EXCEPT ![w] = [NoAuto EXCEPT !.pc = "getFeed", !.item = <<item>>,
                                    !.category = ExtractCategory(item),
                                    !.feedId = GenerateFeedId(ExtractCategory(item))]]
  /\ UNCHANGED <<store, uuidCount, call, hist, trending, source, distributed>>

\* client.addFeedItem(feedId, item) is sent: the router draws the item's ID
\* (crypto.randomUUID()) and calls addFeedItem.
SendAddFeedItem(w, a, feedCreated) ==
  LET item == [id |-> NoId, body |-> a.item[1].body] IN
  /\ uuidCount < MaxUuid
  /\ uuidCount' = uuidCount + 1
  /\ Start(w, [Idle EXCEPT !.op = "addFeedItem", !.pc = "ai_set", !.feedId = a.feedId,
                           !.items = <<item>>, !.out = <<ItemWithId(item, uuidCount)>>])
  /\ auto' = [auto EXCEPT ![w].pc = "addFeedItem", ![w].feedCreated = feedCreated,
                          ![w].itemId = ItemWithId(item, uuidCount).id]

\* client.getFeed(feedId) of the distributor's client: the getFeed procedure
\* of the server, the stored feed or null.
ClientGetFeed(feedId) == GetFeed(feedId)
\* client.addFeed(feed) of the distributor's client: the addFeed procedure of
\* the server is called with the feed, stored under the generated feed ID.
ClientAddFeed(feed) ==
  [Idle EXCEPT !.op = "addFeed", !.pc = "af_get", !.feedId = feed.id,
               !.items = feed.items, !.categories = feed.categories]

\* existingFeed = await client.getFeed(feedId): if (!existingFeed) the feed of
\* the template is sent with client.addFeed(feed); else addFeedItem is sent.
AutoGetFeed(w) ==
  LET a == auto[w] IN
  /\ a.pc = "getFeed"
  /\ IF Exists(ClientGetFeed(a.feedId))
       THEN SendAddFeedItem(w, a, FALSE)
       ELSE /\ Start(w, ClientAddFeed(CreateFeedFromTemplate(a.item[1])))
            /\ auto' = [auto EXCEPT ![w].pc = "addFeed"]
            /\ UNCHANGED uuidCount
  /\ UNCHANGED <<store, hist, opCount, trending, source, distributed>>

\* client.addFeed(feed) has resolved: feedCreated = true; addFeedItem is sent.
AutoAddFeedResolved(w) ==
  /\ auto[w].pc = "addFeed"
  /\ IsIdle(w)
  /\ SendAddFeedItem(w, auto[w], TRUE)
  /\ UNCHANGED <<store, hist, opCount, trending, source, distributed>>

\* client.addFeedItem(feedId, item) has resolved: return {success: true,
\* data: {results: [{itemId: result.itemId, feedId, feedCreated, ...}]}}.
AutoAddFeedItemResolved(w) ==
  LET a == auto[w] IN
  /\ a.pc = "addFeedItem"
  /\ IsIdle(w)
  /\ distributed' = distributed \cup
       {[itemId |-> a.itemId, feedId |-> a.feedId, feedCreated |-> a.feedCreated]}
  /\ auto' = [auto EXCEPT ![w] = NoAuto]
  /\ UNCHANGED <<store, uuidCount, call, hist, opCount, trending, source>>

AutoModeStep(w) ==
  \/ \E item \in DistItems : ExecuteAutoMode(w, item)
  \/ AutoGetFeed(w)
  \/ AutoAddFeedResolved(w)
  \/ AutoAddFeedItemResolved(w)

\* Overlapping auto-mode executions and the steps of the calls they make.
DistNext ==
  \E w \in Workers :
    \/ AutoModeStep(w)
    \/ AddFeedGet(w) \/ AddFeedLRange(w) \/ AddFeedDelItem(w) \/ AddFeedDelList(w)
    \/ AddFeedSetDoc(w) \/ AddFeedSAdd(w)
    \/ AddFeedItemStep(w)

DistSpec == Init /\ [][DistNext]_vars

\* ------------------------------------------------------------ specification
Step(w) == AddFeedStep(w) \/ DeleteFeedStep(w) \/ AddFeedItemStep(w)

Call(w, seq) ==
  \/ \E feed \in FeedInputs : CallAddFeed(w, feed, seq)
  \/ \E f \in FeedIds : CallDeleteFeed(w, f, seq)
  \/ \E f \in FeedIds, item \in ItemInputs : CallAddFeedItem(w, f, item, seq)

\* Requests overlap: any worker may start a call while others are in progress.
Next == \E w \in Workers : Call(w, Overlapping) \/ Step(w)

Spec == Init /\ [][Next]_vars

\* One request at a time: a call starts only when no call is in progress.
SeqNext == \E w \in SeqWorkers : Call(w, OneAtATime) \/ Step(w)

SeqSpec == Init /\ [][SeqNext]_vars

\* One request at a time, on feeds with categories and dated, tagged items.
AggCall(w) ==
  \/ \E feed \in AggFeedInputs : CallAddFeed(w, feed, AggMode)
  \/ \E f \in FeedIds : CallDeleteFeed(w, f, AggMode)
  \/ \E f \in FeedIds, item \in AggItemInputs : CallAddFeedItem(w, f, item, AggMode)

AggNext == \E w \in SeqWorkers : AggCall(w) \/ Step(w)

AggSpec == Init /\ [][AggNext]_vars

\* One request at a time: feeds are stored, their items are viewed, time passes.
\* The feeds carry the caller-supplied item ID first, so that two feeds share it.
TrendFeedInputs ==
  {feed \in FeedInputs :
     /\ feed.items # <<>>
     /\ \A i \in DOMAIN feed.items : feed.items[i].id = NoId <=> i > 1}

TrendCall(w) ==
  \/ \E feed \in TrendFeedInputs : CallAddFeed(w, feed, TrendMode)
  \/ \E itemId \in ItemIds : CallTrackItemView(w, itemId, TrendMode)

TrendNext ==
  \/ \E w \in SeqWorkers : TrendCall(w) \/ AddFeedStep(w) \/ TrackItemViewStep(w)
  \/ TickBetweenCalls

TrendSpec == Init /\ [][TrendNext]_vars

\* One request at a time, any command of which may fail.
FailCall(w) ==
  \/ \E feed \in FeedInputs : CallAddFeed(w, feed, FailMode)
  \/ \E f \in FeedIds : CallDeleteFeed(w, f, FailMode)
  \/ \E f \in FeedIds, item \in ItemInputs : CallAddFeedItem(w, f, item, FailMode)
  \/ \E itemId \in ItemIds : CallTrackItemView(w, itemId, FailMode)

FailNext ==
  \E w \in SeqWorkers :
    \/ FailCall(w)
    \/ Step(w)
    \/ TrackItemViewStep(w)
    \/ \E cause \in Causes : Fail(w, cause)

FailSpec == Init /\ [][FailNext]_vars

\* One request at a time: feeds are stored and deleted and items are viewed.
ScopeCall(w) ==
  \/ \E feed \in TrendFeedInputs : CallAddFeed(w, feed, ScopeMode)
  \/ \E f \in FeedIds : CallDeleteFeed(w, f, ScopeMode)
  \/ \E itemId \in ItemIds : CallTrackItemView(w, itemId, ScopeMode)

ScopeNext ==
  \E w \in SeqWorkers :
    ScopeCall(w) \/ AddFeedStep(w) \/ DeleteFeedStep(w) \/ TrackItemViewStep(w)

ScopeSpec == Init /\ [][ScopeNext]_vars

\* One request at a time: feeds are stored and deleted, items are viewed, and
\* time passes between the calls.
CountNext ==
  \/ \E w \in SeqWorkers :
       \/ \E feed \in TrendFeedInputs : CallAddFeed(w, feed, CountMode)
       \/ \E f \in FeedIds : CallDeleteFeed(w, f, CountMode)
       \/ \E itemId \in ItemIds : CallTrackItemView(w, itemId, CountMode)
       \/ AddFeedStep(w) \/ DeleteFeedStep(w) \/ TrackItemViewStep(w)
  \/ TickBetweenCalls

CountSpec == Init /\ [][CountNext]_vars

\* Overlapping addFeed calls and nothing else; any command may fail.
AddNext ==
  \E w \in Workers :
    \/ \E feed \in FeedInputs : CallAddFeed(w, feed, AddMode)
    \/ AddFeedStep(w)
    \/ \E cause \in Causes : Fail(w, cause)

AddSpec == Init /\ [][AddNext]_vars

\* Views overlap each other and the storing of feeds; time passes at any point.
RaceCall(w) ==
  \/ \E feed \in TrendFeedInputs : CallAddFeed(w, feed, RaceMode)
  \/ \E itemId \in ItemIds : CallTrackItemView(w, itemId, RaceMode)

RaceNext ==
  \/ \E w \in Workers : RaceCall(w) \/ AddFeedStep(w) \/ TrackItemViewStep(w)
  \/ Tick

RaceSpec == Init /\ [][RaceNext]_vars

\* ------------------------------------------------------------------ claims
Reverse(s) == [i \in DOMAIN s |-> s[Len(s) + 1 - i]]
Distinct(s) == \A i, j \in DOMAIN s : i # j => s[i] # s[j]
\* The item IDs of the documents stored by the call that returned last.
LastIds == IdsOf(lastCall.out)
\* The state in which the call that returned last has just returned.
Returned(op) == AllIdle /\ lastCall.op = op

\* C1: whenever addFeed(feed) has returned with no other call running,
\* getFeedItems(feed.id) is exactly the input feed's items, newest-pushed
\* first, whatever state preceded the call (an index list left by addFeedItem
\* for a feed without a document included). Stated for input items of
\* pairwise distinct IDs, the case the claim cannot be denied in.
C1_AddFeedReadsExactlyInput ==
  (Returned("addFeed") /\ Distinct(LastIds)) =>
    GetFeedItems(lastCall.feedId) = Reverse(lastCall.out)

\* C2: addFeed(F) with items of distinct IDs S1, then addFeed(F) with items of
\* distinct IDs S2 disjoint from S1: getFeedItems(F) is the second item array
\* reversed, and getFeedItem on every ID of S1 is null.
ReplacedDisjoint ==
  /\ Returned("addFeed")
  /\ prevCall.op = "addFeed"
  /\ prevCall.feedId = lastCall.feedId
  /\ Distinct(LastIds)
  /\ Range(LastIds) \cap prevCall.ids = {}

C2_ReplaceSemantics ==
  ReplacedDisjoint =>
    /\ GetFeedItems(lastCall.feedId) = Reverse(lastCall.out)
    /\ \A id \in prevCall.ids : ~Exists(GetFeedItem(lastCall.feedId, id))

\* C2 witness: a feed of two items replaced by a feed of another item.
C2_Witness ==
  /\ ReplacedDisjoint
  /\ Cardinality(prevCall.ids) = 2
  /\ Len(lastCall.out) = 1

\* C3: when two addFeed calls for the same feed ID overlapped and both have
\* returned, the feed's item-index list holds the item IDs of exactly one of
\* the two calls, never IDs of both.
C3_OverlappingAddFeedNeverMerged ==
  (/\ Returned("addFeed")
   /\ prevCall.op = "addFeed"
   /\ prevCall.feedId = lastCall.feedId
   /\ lastCall.ov /\ prevCall.ov) =>
    \/ Range(feedItems[lastCall.feedId]) = Range(LastIds)
    \/ Range(feedItems[lastCall.feedId]) = prevCall.ids

\* C4: with no write in progress, a feed ID is in feeds:directory if and only
\* if the document feed:{id} exists (also after an addFeed and a deleteFeed of
\* the same feed that overlapped).
C4_DirectoryIffDocument ==
  AllIdle => \A f \in FeedIds : f \in directory <=> Exists(GetFeed(f))

\* How many feeds of the result of getFeeds() carry the ID f.
CountFeed(feeds, f) == Cardinality({i \in DOMAIN feeds : feeds[i].id = f})

\* C5: one request at a time: after addFeed(F) returns, F is in getFeeds()
\* exactly once; after deleteFeed(F) returns, F is not in getFeeds() and
\* getFeed(F) is null.
C5_ListedOnceThenGone ==
  /\ Returned("addFeed") =>
       \A feeds \in GetFeeds : CountFeed(feeds, lastCall.feedId) = 1
  /\ Returned("deleteFeed") =>
       /\ \A feeds \in GetFeeds : CountFeed(feeds, lastCall.feedId) = 0
       /\ ~Exists(GetFeed(lastCall.feedId))

\* C5 witness: a feed re-added while another feed is listed too.
C5_Witness ==
  /\ Returned("addFeed")
  /\ prevCall.op = "addFeed"
  /\ prevCall.feedId = lastCall.feedId
  /\ Cardinality(directory) = 2

\* C6: with no write in progress, every item ID in a feed's item-index list
\* has an item:{itemId} document, for every sequence of addFeed, addFeedItem
\* and deleteFeed calls, caller-supplied item IDs included.
C6_IndexedItemsHaveDocuments ==
  AllIdle =>
    \A f \in FeedIds : \A i \in DOMAIN feedItems[f] :
      Exists(GetFeedItem(f, feedItems[f][i]))

\* The places (feed, position) at which the index lists hold the item ID.
Places(id) ==
  UNION {{<<f, i>> : i \in {j \in DOMAIN feedItems[f] : feedItems[f][j] = id}} :
           f \in FeedIds}

\* C7: after any sequence of addFeed and addFeedItem calls, each item ID is in
\* at most one feed's item-index list and at most once in it.
C7_ItemIdsUnique ==
  AllIdle => \A id \in ItemIds : Cardinality(Places(id)) <= 1

\* C8: one request at a time: after deleteFeed(F) returns, getFeedItems(F) is
\* empty, the key feed:F:items is gone, and getFeedItem is null for every item
\* ID the call read from F's item-index list.
C8_DeleteFeedCascades ==
  Returned("deleteFeed") =>
    /\ GetFeedItems(lastCall.feedId) = <<>>
    /\ LRange(feedItems, lastCall.feedId) = <<>>
    /\ \A id \in Range(lastCall.itemIds) : ~Exists(GetFeedItem(lastCall.feedId, id))

\* C8 witness: a deleteFeed that found two item IDs in the list has returned.
C8_Witness ==
  /\ Returned("deleteFeed")
  /\ Len(lastCall.itemIds) = 2
  /\ Distinct(lastCall.itemIds)

\* The feed has no document, no item-index list and no directory entry.
Absent(f) == ~Exists(GetFeed(f)) /\ LRange(feedItems, f) = <<>> /\ f \notin directory

\* C9: deleteFeed is idempotent: no step of a deleteFeed(F) that follows a
\* returned deleteFeed(F), or that runs on a feed that is absent, changes the
\* store, so the state after the second call is the state after the first.
C9_DeleteFeedIdempotent ==
  [][\A w \in Workers :
       (/\ call[w].op = "deleteFeed"
        /\ \/ lastCall.op = "deleteFeed" /\ lastCall.feedId = call[w].feedId
           \/ Absent(call[w].feedId)) => store' = store]_vars

\* C9 witness: the second of two deleteFeed calls in a row for a feed that
\* had an item has returned.
C9_Witness ==
  /\ Returned("deleteFeed")
  /\ prevCall.op = "deleteFeed"
  /\ prevCall.feedId = lastCall.feedId
  /\ opCount = 3
  /\ uuidCount = 1

ClaimedDate(item) ==
  IF BodyTable(item.body).published # NoDate
    THEN BodyTable(item.body).published
    ELSE BodyTable(item.body).date
Descending(items) ==
  \A i, j \in DOMAIN items : i < j => ClaimedDate(items[i]) >= ClaimedDate(items[j])
Count(items, x) == Cardinality({i \in DOMAIN items : items[i] = x})
SameItems(s, t) == \A x \in Range(s) \cup Range(t) : Count(s, x) = Count(t, x)
\* The items of the given effective date, in the order they have in `items`.
OfDate(items, d) == LET Is(item) == ClaimedDate(item) = d IN SelectSeq(items, Is)
Dates == {ClaimedDate([id |-> NoId, body |-> b]) : b \in AggBodies}
\* listAllItems with no since-filter and a limit larger than the corpus.
AllItems(order) ==
  GetAllFeedItems(order, [limit |-> Len(Encounter(order)) + 1, offset |-> 0, since |-> NoSince])
\* The pages listAllItems({limit: L, offset}), ({limit: L, offset + L}), ...
\* up to the first empty page, one after the other.
RECURSIVE Pages(_, _, _)
Pages(order, L, offset) ==
  LET page == GetAllFeedItems(order, [limit |-> L, offset |-> offset, since |-> NoSince])
  IN IF page = <<>> THEN <<>> ELSE page \o Pages(order, L, offset + L)

\* C11: with no call in progress, and SMEMBERS answering every page's call
\* in the same order (the directory is not written between them), the pages
\* of listAllItems for offsets 0, L, 2L, ... of any page size L >= 1, put one
\* after the other, are the whole date-descending sequence of the items of
\* all directory feeds: every item the scan meets occurs in them as often as
\* the scan meets it, equal effective dates in different feeds included.
C11_PagesReproduceWholeSequence ==
  AllIdle =>
    \A order \in SMembers(directory) : \A L \in 1..MaxLimit :
      /\ Pages(order, L, 0) = AllItems(order)
      /\ Descending(Pages(order, L, 0))
      /\ SameItems(Pages(order, L, 0), Encounter(order))

\* Two directory feeds hold three or more items, two of them in different
\* feeds with the same effective date, so that pages of one and two items
\* cut through the tie.
C11_Witness ==
  /\ AllIdle
  /\ directory = FeedIds
  /\ Len(GetFeedItems("F")) + Len(GetFeedItems("G")) >= 3
  /\ \E i \in DOMAIN GetFeedItems("F"), j \in DOMAIN GetFeedItems("G") :
       /\ ClaimedDate(GetFeedItems("F")[i]) = ClaimedDate(GetFeedItems("G")[j])
       /\ GetFeedItems("F")[i] # GetFeedItems("G")[j]
  /\ \E i, j \in DOMAIN GetFeedItems("F") :
       ClaimedDate(GetFeedItems("F")[i]) # ClaimedDate(GetFeedItems("F")[j])

\* The since-filters tried: none, and every time from just before the
\* earliest effective date to just after the latest.
SinceValues == {NoSince} \cup UNION {{d - 1, d, d + 1} : d \in Dates}

\* C12: with no call in progress, listAllItems (limit larger than the corpus)
\* returns its items by effective date descending, the effective date being
\* published when present and date otherwise; the items of one effective date
\* keep the order the scan met them in; with sinceTimestamp given, every
\* item the scan met with effective date >= sinceTimestamp is returned and
\* no item with an older effective date is.
C12_DateDescendingSinceFiltered ==
  AllIdle =>
    \A order \in SMembers(directory) : \A since \in SinceValues :
      LET all == Encounter(order)
          out == GetAllFeedItems(order, [limit |-> Len(all) + 1, offset |-> 0, since |-> since])
      IN /\ Descending(out)
         /\ \A d \in Dates :
              OfDate(out, d) = IF since = NoSince \/ d >= since THEN OfDate(all, d) ELSE <<>>

\* The scan meets two different items of one effective date and, after an
\* item dated later, an item whose published date - not its date - puts it
\* first; a since-filter at the later date drops some items and keeps others.
C12_Witness ==
  /\ AllIdle
  /\ \E order \in SMembers(directory) :
       LET all == Encounter(order)
           out == GetAllFeedItems(order, [limit |-> Len(all) + 1, offset |-> 0, since |-> 3])
       IN /\ \E i, j \in DOMAIN all :
               i < j /\ all[i] # all[j] /\ ClaimedDate(all[i]) = ClaimedDate(all[j])
          /\ \E i, j \in DOMAIN all :
               /\ i < j
               /\ ClaimedDate(all[i]) < ClaimedDate(all[j])
               /\ BodyTable(all[j].body).date < ClaimedDate(all[i])
          /\ out # <<>>
          /\ Len(out) < Len(all)

\* The category tag test as the claims state it: name or term equals c.
ClaimedTag(item, c) ==
  \E i \in DOMAIN BodyTable(item.body).category :
    BodyTable(item.body).category[i].name = c \/ BodyTable(item.body).category[i].term = c
\* No item ID is in two index lists or twice in one: no item document has
\* been overwritten through another list entry.
NoSharedIds == \A id \in ItemIds : Cardinality(Places(id)) <= 1

\* C13: with no call in progress, listCategories() is the sorted,
\* duplicate-free sequence of exactly the strings that are in the category
\* list of a directory feed or are the name or term of a category tag of an
\* item in the item-index list of a directory feed - items added with
\* addFeedItem after the feed was created included. Stated for stores in
\* which no item ID is indexed twice.
C13_CategoriesCoverAddedItems ==
  (AllIdle /\ NoSharedIds) =>
    \A order \in SMembers(directory) :
      LET out == GetAllCategories(order) IN
      /\ \A i, j \in DOMAIN out : i < j =>
           \E m, n \in DOMAIN CategoryOrder :
             m < n /\ CategoryOrder[m] = out[i] /\ CategoryOrder[n] = out[j]
      /\ \A c \in Categories :
           c \in Range(out) <=>
             \E f \in directory :
               \/ Exists(GetFeed(f)) /\ c \in Range(GetFeed(f)[1].categories)
               \/ \E i \in DOMAIN GetFeedItems(f) : ClaimedTag(GetFeedItems(f)[i], c)

\* C14: with no call in progress, listFeedsByCategory(c) returns a directory
\* feed F if and only if c is in F's category list or an item in F's
\* item-index list carries a category tag whose name or term is c - items
\* that entered F through addFeedItem included. Stated for stores in which
\* no item ID is indexed twice.
C14_FeedsByCategoryCoverAddedItems ==
  (AllIdle /\ NoSharedIds) =>
    \A order \in SMembers(directory) : \A c \in Categories : \A f \in directory :
      (\E i \in DOMAIN GetFeedsByCategory(order, c) : GetFeedsByCategory(order, c)[i].id = f)
        <=> /\ Exists(GetFeed(f))
            /\ \/ c \in Range(GetFeed(f)[1].categories)
               \/ \E i \in DOMAIN GetFeedItems(f) : ClaimedTag(GetFeedItems(f)[i], c)

\* Elements offset+1 .. offset+limit of s, as far as s goes.
ClaimedSlice(s, offset, limit) == [i \in 1..Min(limit, Len(s) - offset) |-> s[offset + i]]
\* The items the scan meets that carry the tag c.
Tagged(order, c) == LET Is(item) == ClaimedTag(item, c) IN SelectSeq(Encounter(order), Is)

\* C15: with no call in progress, listItemsByCategory(c, {limit, offset}) is
\* the slice [offset, offset + limit) of the sequence, by effective date
\* descending, of exactly the items reachable through the item-index lists of
\* directory feeds that have a category tag whose name or term is c, compared
\* case-sensitively; that c is in the category list of an item's feed does
\* not make the item part of it.
C15_ItemsByCategorySlice ==
  AllIdle =>
    \A order \in SMembers(directory) : \A c \in Categories :
      LET all == Tagged(order, c)
          sorted == GetItemsByCategory(order, c, [limit |-> Len(Encounter(order)) + 1, offset |-> 0])
      IN /\ Descending(sorted)
         /\ \A d \in Dates : OfDate(sorted, d) = OfDate(all, d)
         /\ \A limit \in 1..MaxLimit : \A offset \in 0..MaxLimit :
              GetItemsByCategory(order, c, [limit |-> limit, offset |-> offset])
                = ClaimedSlice(sorted, offset, limit)

\* A directory feed that lists "AI" as its own category holds an untagged
\* item, and two tagged items are in the directory feeds, matched through
\* the term "ML" as well as through the name "AI": a one-item page at offset 1
\* is a proper slice, and "ai" matches nothing.
C15_Witness ==
  /\ AllIdle
  /\ \E f \in directory :
       /\ Exists(GetFeed(f)) /\ "AI" \in Range(GetFeed(f)[1].categories)
       /\ \E i \in DOMAIN GetFeedItems(f) : ~ClaimedTag(GetFeedItems(f)[i], "AI")
  /\ \E order \in SMembers(directory) :
       /\ Len(Tagged(order, "ML")) >= 2
       /\ Len(Tagged(order, "ML")) < Len(Encounter(order))
       /\ Len(GetItemsByCategory(order, "AI", [limit |-> 1, offset |-> 1])) = 1
       /\ GetItemsByCategory(order, "ai", [limit |-> 1, offset |-> 0]) = <<>>

\* C16: whenever no call is in progress, getStats() agrees with the other
\* reads of the same state: totalFeeds is the number of feeds getFeeds()
\* returns, totalItems the number of items listAllItems returns with no
\* since-filter and a limit larger than the corpus, totalCategories the
\* length of listCategories().
C16_StatsAgreeWithReads ==
  AllIdle =>
    \A order \in SMembers(directory) :
      /\ GetStats(order).totalFeeds = Len(Resolve(feedDoc, order))
      /\ GetStats(order).totalItems = Len(AllItems(order))
      /\ GetStats(order).totalCategories = Len(GetAllCategories(order))

\* ------------------------------------------------------- claims: trending
\* The limits the trending reads are called with (0: none given).
Limits == 0..MaxLimit
\* The item of ID x is listed, and listed before the item of ID y.
ListedBefore(items, x, y) ==
  \E i, j \in DOMAIN items : i < j /\ items[i].id = x /\ items[j].id = y
Listed(items, x) == \E i \in DOMAIN items : items[i].id = x
\* The latest view of x is inside the window at the present time.
InsideWindow(x, t) ==
  viewed[x].count > 0 /\ viewed[x].last >= now - GetTimeWindowSeconds(t)

\* C17: trackItemView calls that do not overlap: with no call in progress,
\* the score of a viewed item in every trending:{window} set is the timestamp
\* of its latest view, however often it was viewed (a view replaces the
\* score and never adds to it); and if the latest view of X is later than the
\* latest view of Y, both inside the window, and X's document exists, then
\* whenever getTrendingItems(window) lists Y it lists X before Y.
C17_RankIsRecencyNotCount ==
  AllIdle =>
    /\ \A x \in ItemIds : viewed[x].count > 0 =>
         \A t \in Windows : trend[t][x] = viewed[x].last
    /\ \A t \in Windows : \A limit \in Limits : \A x, y \in ItemIds :
         (/\ InsideWindow(x, t) /\ InsideWindow(y, t)
          /\ viewed[x].last > viewed[y].last
          /\ Exists(Get(itemDoc, x))
          /\ Listed(GetTrendingItems(t, [limit |-> limit]), y))
           => ListedBefore(GetTrendingItems(t, [limit |-> limit]), x, y)

\* Y was viewed twice and X once, X later than Y and both within the last
\* hour; Y's ID is the higher one, and getTrendingItems("1h") lists X first.
C17_Witness ==
  /\ AllIdle
  /\ \E x, y \in ItemIds :
       /\ viewed[y].count >= 2 /\ viewed[x].count = 1
       /\ viewed[x].last > viewed[y].last
       /\ IdRank(y) > IdRank(x)
       /\ InsideWindow(y, "1h")
       /\ ListedBefore(GetTrendingItems("1h", [limit |-> 2]), x, y)

\* The IDs other than x that are members of trending:{t} with a score above
\* (strict) or not below the given one.
OthersAbove(t, x, score, strict) ==
  {y \in ItemIds \ {x} :
     /\ trend[t][y] # NoScore
     /\ IF strict THEN trend[t][y] > score ELSE trend[t][y] >= score}

\* C18 as stated: with no call in progress, X's latest trackItemView at time
\* T and X's document stored: getTrendingItems(w) called later than
\* T + duration(w) does not list X, and called no later than T + duration(w)
\* lists X provided fewer than `limit` other tracked IDs have a more recent
\* score; the durations are 3600, 86400, 604800 and 2592000 seconds.
C18_WindowExclusionAsStated ==
  AllIdle =>
    \A x \in ItemIds : \A t \in Windows : \A limit \in Limits :
      (viewed[x].count > 0 /\ Exists(Get(itemDoc, x))) =>
        LET T == viewed[x].last
            duration == CASE t = "1h" -> 3600 [] t = "24h" -> 86400
                          [] t = "7d" -> 604800 [] t = "30d" -> 2592000
            out == GetTrendingItems(t, [limit |-> limit])
        IN /\ now > T + duration => ~Listed(out, x)
           /\ (/\ now <= T + duration
               /\ Cardinality(OthersAbove(t, x, T, TRUE)) < TrendingLimit([limit |-> limit]))
                => Listed(out, x)

\* C18, amended: the same, with X listed provided fewer than `limit` other
\* tracked IDs have a score that is more recent than or equal to X's.
C18_WindowExclusion ==
  AllIdle =>
    \A x \in ItemIds : \A t \in Windows : \A limit \in Limits :
      (viewed[x].count > 0 /\ Exists(Get(itemDoc, x))) =>
        LET T == viewed[x].last
            duration == CASE t = "1h" -> 3600 [] t = "24h" -> 86400
                          [] t = "7d" -> 604800 [] t = "30d" -> 2592000
            out == GetTrendingItems(t, [limit |-> limit])
        IN /\ now > T + duration => ~Listed(out, x)
           /\ (/\ now <= T + duration
               /\ Cardinality(OthersAbove(t, x, T, FALSE)) < TrendingLimit([limit |-> limit]))
                => Listed(out, x)

\* X, its document stored, was viewed at time 0 and another item later; the
\* time is exactly 604800: X is at the edge of the 7d window and listed there
\* with limit 2, not listed with limit 1, and outside the 1h and 24h windows.
C18_Witness ==
  /\ AllIdle
  /\ now = 604800
  /\ \E x \in ItemIds :
       /\ viewed[x].count > 0 /\ viewed[x].last = 0 /\ Exists(Get(itemDoc, x))
       /\ Listed(GetTrendingItems("7d", [limit |-> 2]), x)
       /\ ~Listed(GetTrendingItems("7d", [limit |-> 1]), x)
       /\ ~Listed(GetTrendingItems("24h", [limit |-> 2]), x)
       /\ Listed(GetTrendingItems("30d", [limit |-> 0]), x)

\* The directory feeds whose item-index list holds the item ID.
Holders(x) == {f \in directory : x \in Range(LRange(feedItems, f))}
\* The first feed of the order whose item-index list holds the item ID ("" if none).
FirstHolder(order, x) ==
  IF \E i \in DOMAIN order : order[i] \in Holders(x)
    THEN order[CHOOSE i \in DOMAIN order :
                 /\ order[i] \in Holders(x)
                 /\ \A j \in 1..(i - 1) : order[j] \notin Holders(x)]
    ELSE ""

\* C19, the writes: a step of trackItemView(X) changes the per-feed trending
\* sets of no feed but the first feed, in the order SMEMBERS answered the
\* call, whose item-index list holds X; if no directory feed's list holds X
\* it changes none.
C19_WritesOnlyFirstHolder ==
  \A w \in Workers :
    (call[w].op = "trackItemView" /\ call'[w] # call[w]) =>
      \A f \in FeedIds :
        feedTrend'[f] # feedTrend[f] =>
          /\ f = FirstHolder(call[w].feedIds, call[w].itemId)
          /\ \A t \in Windows : \A y \in ItemIds \ {call[w].itemId} :
               feedTrend'[f][t][y] = feedTrend[f][t][y]

\* C19, the outcome: when a trackItemView(X) that overlapped no other call
\* has returned and a directory feed's list holds X, X has the call's
\* timestamp as its score in trending:feed:{F}:{w} of all four windows of
\* the first such feed F; and if X is an item of the feed stored by the
\* addFeed before it, held by no other directory feed and the only item ever
\* viewed, getFeedTrending(F, "24h", {limit: 10}) within the window is [X].
C19_FirstHolderHasAllWindows ==
  Returned("trackItemView") =>
    LET x == lastCall.itemId
        F == FirstHolder(lastCall.feedIds, x)
    IN /\ Holders(x) # {} =>
            F \in Holders(x) /\ \A t \in Windows : feedTrend[F][t][x] = lastCall.now
       /\ (/\ prevCall.op = "addFeed" /\ x \in prevCall.ids
           /\ Holders(x) = {prevCall.feedId}
           /\ \A y \in ItemIds \ {x} : viewed[y].count = 0
           /\ now <= lastCall.now + 86400)
            => IdsOf(GetFeedTrending(prevCall.feedId, "24h", [limit |-> 10])) = <<x>>

\* C19: trackItemView(X) updates the per-feed trending sets of exactly one
\* feed - all four windows of the first directory feed found to hold X, and
\* no other feed's - or of none if no directory feed holds X; so after
\* addFeed("news" with items A, B) and trackItemView(A),
\* getFeedTrending("news", "24h", {limit: 10}) returns [A].
C19_PerFeedTrendingOfOneFeed ==
  [][C19_WritesOnlyFirstHolder]_vars /\ [](C19_FirstHolderHasAllWindows)

\* trackItemView(X) has returned with X in the lists of both directory feeds:
\* the feed SMEMBERS named first has X in its four sets, the other in none.
C19_Witness ==
  /\ Returned("trackItemView")
  /\ Holders(lastCall.itemId) = FeedIds
  /\ \E f \in FeedIds :
       /\ f = FirstHolder(lastCall.feedIds, lastCall.itemId)
       /\ \A t \in Windows : feedTrend[f][t][lastCall.itemId] = lastCall.now
       /\ \A g \in FeedIds \ {f} : \A t \in Windows : feedTrend[g][t][lastCall.itemId] = NoScore

\* C20: trackItemView calls for one item may overlap in any way: once no
\* call is in progress, the item's score in every trending:{window} set is
\* the largest timestamp any of the calls computed (the clock never goes
\* back, so that is the timestamp of the view that started last).
C20_LaterViewWinsUnderOverlap ==
  AllIdle =>
    \A x \in ItemIds : viewed[x].count > 0 =>
      \A t \in Windows : trend[t][x] = viewed[x].last

\* ------------------------------------------------------- claims: failures
\* The ID a call is about: the item ID of a view, the feed ID otherwise.
Target(c) == IF c.op = "trackItemView" THEN c.itemId ELSE c.feedId
MessagePrefixes ==
  {"Failed to add feed ", "Failed to delete feed ", "Failed to add item to feed ",
   "Failed to track view for item "}
\* Worker w's call ends in this step with an error.
Failing(w) == ~IsIdle(w) /\ call'[w].pc = "idle" /\ lastCall'.err # <<>>

\* C21: when a command of addFeed, deleteFeed, addFeedItem or trackItemView
\* fails, the call ends in that step with a RedisError whose message names the
\* call's target ID and whose cause is the rejection; the worker has nothing
\* left to send, and every key is as the commands before the failure left it.
C21_FailureEndsCallKeepsWrites ==
  [][\A w \in Workers : Failing(w) =>
       LET c == call[w]
           e == lastCall'.err[1] IN
       /\ e.tag = "RedisError"
       /\ \E p \in MessagePrefixes : e.message = p \o Target(c)
       /\ e.cause \in Causes
       /\ call'[w] = Idle
       /\ store' = store
       /\ trend' = trend
       /\ feedTrend' = feedTrend]_vars
\* An addFeed failed after it had stored the feed document and an item, and
\* both are still there.
C21_Witness ==
  /\ AllIdle
  /\ lastCall.op = "addFeed"
  /\ lastCall.err # <<>>
  /\ lastCall.out # <<>>
  /\ Exists(GetFeed(lastCall.feedId))
  /\ \A i \in DOMAIN lastCall.out : Exists(Get(itemDoc, lastCall.out[i].id))

\* deleteFeed(F) failed and the next call was deleteFeed(F), which returned.
Retried(op) ==
  /\ Returned(op)
  /\ lastCall.err = <<>>
  /\ prevCall.op = op
  /\ prevCall.failed
  /\ prevCall.feedId = lastCall.feedId
\* The item IDs the two attempts read from the index list. No call ran between
\* them, and the first attempt writes the list only by deleting it after the
\* documents: the list it found is the one it read, or the one the retry read
\* when it failed before reading.
ReadByEitherAttempt == Range(prevCall.itemIds) \cup Range(lastCall.itemIds)

\* C22: when deleteFeed(F) fails at any of its commands and the next call is
\* deleteFeed(F) and returns, then feed:F, feed:F:items and F's directory
\* entry are gone, and so is every item document F's list referenced before
\* the first attempt.
C22_DeleteFeedRecoversByRetry ==
  Retried("deleteFeed") =>
    /\ Absent(lastCall.feedId)
    /\ \A id \in ReadByEitherAttempt : ~Exists(Get(itemDoc, id))
\* The first attempt read two item IDs and failed before it deleted the
\* list, which the retry read again.
C22_Witness ==
  /\ Retried("deleteFeed")
  /\ Len(prevCall.itemIds) = 2
  /\ lastCall.itemIds = prevCall.itemIds

\* An item document whose ID is in no feed's item-index list.
Orphaned(x) == Exists(Get(itemDoc, x)) /\ Places(x) = {}
WholeList == [limit |-> 0, offset |-> 0, since |-> NoSince]

\* C23: in every state, an orphaned item document is in the result of none of
\* getFeedItems, getAllFeedItems, getItemsByCategory, getTrendingItems and
\* getFeedTrending, whatever views were tracked for its ID.
C23_OrphansNeverListed ==
  \A x \in ItemIds : Orphaned(x) =>
    /\ \A f \in FeedIds : ~Listed(GetFeedItems(f), x)
    /\ \A order \in SMembers(directory) :
         /\ ~Listed(GetAllFeedItems(order, WholeList), x)
         /\ \A category \in Categories :
              ~Listed(GetItemsByCategory(order, category, WholeList), x)
    /\ \A t \in Windows :
         /\ ~Listed(GetTrendingItems(t, WholeList), x)
         /\ \A f \in FeedIds : ~Listed(GetFeedTrending(f, t, WholeList), x)

\* ------------------------------------------------- claims: items and feeds
\* Worker w is inside an addFeedItem call.
InAddFeedItem(w) == call[w].op = "addFeedItem"
\* addFeedItem(F, item) returned and F has neither a document nor a
\* directory entry.
AddedToAbsentFeed ==
  /\ Returned("addFeedItem")
  /\ lastCall.err = <<>>
  /\ ~Exists(GetFeed(lastCall.feedId))
  /\ lastCall.feedId \notin directory
C24_NoStepTouchesFeed ==
  (\E w \in Workers : InAddFeedItem(w)) => feedDoc' = feedDoc /\ directory' = directory
C24_AfterReturn ==
  AddedToAbsentFeed =>
    LET F == lastCall.feedId
        itemWithId == lastCall.out[1] IN
    /\ Get(itemDoc, itemWithId.id) = <<itemWithId>>
    /\ Head(LRange(feedItems, F)) = itemWithId.id
    /\ Listed(GetFeedItems(F), itemWithId.id)
    /\ \A feeds \in GetFeeds : \A i \in DOMAIN feeds : feeds[i].id # F
    /\ \A order \in SMembers(directory) :
         ~Listed(GetAllFeedItems(order, WholeList), itemWithId.id)

\* C24: addFeedItem(F, item) on a feed ID with no document and no directory
\* entry returns, stores item:{itemId}, puts itemId at the head of
\* feed:F:items and writes neither feed:F nor feeds:directory; afterwards
\* getFeedItems(F) lists the item, getFeeds() has no F and getAllFeedItems()
\* does not list the item.
C24_AddItemToAbsentFeed == [][C24_NoStepTouchesFeed]_vars /\ [](C24_AfterReturn)

\* C25: in every state, getFeedItem(f1, itemId) and getFeedItem(f2, itemId)
\* are equal for all feed IDs f1, f2: the document at item:{itemId} when the
\* key exists and null otherwise, whether or not the named feed exists or
\* lists the item.
C25_GetFeedItemIgnoresFeedId ==
  \A itemId \in ItemIds : \A f1, f2 \in FeedIds :
    /\ GetFeedItem(f1, itemId) = GetFeedItem(f2, itemId)
    /\ GetFeedItem(f1, itemId) = IF Exists(itemDoc[itemId]) THEN itemDoc[itemId] ELSE <<>>
\* The item is in the list of one feed and is looked up, and found, under the
\* ID of a feed that does not exist.
C25_Witness ==
  \E itemId \in ItemIds : \E f1, f2 \in FeedIds :
    /\ AllIdle
    /\ itemId \in Range(LRange(feedItems, f1))
    /\ Absent(f2)
    /\ Exists(GetFeedItem(f2, itemId))

\* The IDs of ids whose key exists in m, in the order of ids, and their documents.
Present(m, ids) == SelectSeq(ids, LAMBDA id : Exists(m[id]))
DocsOf(m, ids) == [i \in DOMAIN ids |-> m[ids[i]][1]]
SomeFeedMissing == \E f \in directory : ~Exists(GetFeed(f))
SomeItemMissing ==
  \E f \in FeedIds : \E id \in Range(LRange(feedItems, f)) : ~Exists(Get(itemDoc, id))

\* C26: in every state, between the commands of a call and after a call that
\* failed part-way included, getFeeds() returns the documents of exactly the
\* directory members that have one, one entry each, and getFeedItems(F) the
\* documents of exactly the IDs of F's list that have one, in list order; a
\* missing document yields no entry at all.
C26_ReadsSkipMissingDocuments ==
  /\ \A order \in SMembers(directory) :
       Resolve(feedDoc, order) = DocsOf(feedDoc, Present(feedDoc, order))
  /\ \A feeds \in GetFeeds :
       /\ {feeds[i].id : i \in DOMAIN feeds} = {f \in directory : Exists(GetFeed(f))}
       /\ Distinct(IdsOf(feeds))
       /\ \A i \in DOMAIN feeds : <<feeds[i]>> = GetFeed(feeds[i].id)
  /\ \A f \in FeedIds :
       GetFeedItems(f) = DocsOf(itemDoc, Present(itemDoc, LRange(feedItems, f)))
\* A deleteFeed failed part-way: a directory member has no document, and a
\* list names an item that has none.
C26_Witness ==
  /\ AllIdle
  /\ lastCall.err # <<>>
  /\ SomeFeedMissing
  /\ SomeItemMissing

\* C27: when feed:{feedId} does not exist and the reads are answered, the
\* getFeedItem procedure delivers an error of code NOT_FOUND with the message
\* "Feed <id> not found", whether or not item:{itemId} exists.
C27_AbsentFeedIsNotFound ==
  \A feedId \in FeedIds, itemId \in ItemIds :
    ~Exists(GetFeed(feedId)) =>
      LET r == AppRouterGetFeedItem(feedId, itemId) IN
      /\ r.error # <<>>
      /\ r.error[1].code = "NOT_FOUND"
      /\ r.error[1].message = "Feed " \o feedId \o " not found"

\* C28: with no call in progress, for every directory feed F the item IDs of
\* getFeed(F).items are the item IDs getFeedItems(F) returns: items added by
\* addFeedItem are in the document, and items that got a generated ID in
\* addFeed carry it there.
C28_EmbeddedItemsAgreeWithList ==
  AllIdle =>
    \A f \in directory : Exists(GetFeed(f)) =>
      Range(IdsOf(GetFeed(f)[1].items)) = Range(IdsOf(GetFeedItems(f)))

\* Worker w is inside a deleteFeed, or inside an addFeed that found a
\* document under its feed ID.
DeletingOrReplacing(w) ==
  call[w].op = "deleteFeed" \/ (call[w].op = "addFeed" /\ call[w].existingFeed)
\* No key of feed G changes in this step.
KeysOfFeedKept(G) ==
  /\ feedDoc'[G] = feedDoc[G]
  /\ feedItems'[G] = feedItems[G]
  /\ (G \in directory') = (G \in directory)
  /\ \A id \in Range(LRange(feedItems, G)) : itemDoc'[id] = itemDoc[id]

\* C29: no step of deleteFeed(F), or of an addFeed(F) that replaces a stored
\* feed, changes feed:G, feed:G:items, G's directory membership or an item
\* document that G's list references, for any feed G other than F.
C29_OnlyOwnKeysChange ==
  [][\A w \in Workers : DeletingOrReplacing(w) =>
       \A G \in FeedIds \ {call[w].feedId} : KeysOfFeedKept(G)]_vars

\* C30: whenever every addFeed, deleteFeed and addFeedItem call started so
\* far has returned, however their commands interleaved, every item document
\* is referenced by the item-index list of at least one feed.
C30_NoOrphansFromInterleaving ==
  AllIdle => \A x \in ItemIds : ~Orphaned(x)

\* ------------------------------------------------ claims: addFeed ordering
\* C31: while only addFeed calls run, however their commands interleave and
\* wherever one of them fails, every member of feeds:directory has a feed
\* document in every state a reader can see, and getFeeds() returns one feed
\* per directory member.
C31_DirectoryMemberHasDocument ==
  /\ \A f \in directory : Exists(GetFeed(f))
  /\ \A feeds \in GetFeeds : Len(feeds) = Cardinality(directory)
\* An addFeed that overlaps another call is replacing a feed of the
\* directory: it has cleared the old list and has not yet stored its document.
C31_Witness ==
  \E w \in Workers :
    /\ call[w].op = "addFeed"
    /\ call[w].ov
    /\ call[w].existingFeed
    /\ call[w].pc = "af_set"
    /\ call[w].feedId \in directory

\* addFeed(feed) failed and the next call was addFeed of the same feed, which
\* returned.
RetriedSameFeed ==
  /\ Retried("addFeed")
  /\ prevCall.items = lastCall.items
  /\ prevCall.categories = lastCall.categories
\* What a single successful addFeed(feed) is to leave: the input document,
\* one directory entry, and the input items, newest-pushed first.
AddFeedResult ==
  LET F == lastCall.feedId IN
  /\ GetFeed(F) = <<[id |-> F, items |-> lastCall.items, categories |-> lastCall.categories]>>
  /\ F \in directory
  /\ \A feeds \in GetFeeds : CountFeed(feeds, F) = 1
  /\ GetFeedItems(F) = Reverse(lastCall.out)

\* C32: when addFeed(feed) fails at any of its commands and the next call is
\* the same addFeed(feed) and returns, getFeed(id) is the input document, id
\* is in the directory once, and getFeedItems(id) is exactly the input items.
C32_AddFeedConvergesByRetry == RetriedSameFeed => AddFeedResult

\* ------------------------------------------------ claims: trending reads
\* The members of sorted set z whose score is inside window t now, and
\* those of them that have an item document.
InWindowOf(z, t) ==
  {x \in ItemIds : z[x] # NoScore /\ z[x] >= now - GetTimeWindowSeconds(t)}
ExistingInWindowOf(z, t) == {x \in InWindowOf(z, t) : Exists(Get(itemDoc, x))}
\* The number of items the claim promises: min(N, k).
PromisedCount(z, t, N) == Min(N, Cardinality(ExistingInWindowOf(z, t)))
\* What holds of the number of items returned: never more than min(N, k),
\* and short of min(N, m), m the in-window members, by no more than the
\* number of in-window members without a document.
CountWithin(out, z, t, N) ==
  LET m == Cardinality(InWindowOf(z, t))
      k == Cardinality(ExistingInWindowOf(z, t))
      returned == Len(out) IN
  /\ returned <= Min(N, k)
  /\ returned >= Min(N, m) - (m - k)
  /\ m = k => returned = Min(N, k)

\* C33 as stated: in every state, getTrendingItems(w, {limit: N}) and
\* getFeedTrending(F, w, {limit: N}) return min(N, k) items, k the number
\* of in-window members of the sorted set that have an item document.
C33_CountAsStated ==
  \A t \in Windows : \A limit \in Limits :
    LET options == [limit |-> limit]
        N == TrendingLimit(options) IN
    /\ Len(GetTrendingItems(t, options)) = PromisedCount(trend[t], t, N)
    /\ \A f \in FeedIds :
         Len(GetFeedTrending(f, t, options)) = PromisedCount(feedTrend[f][t], t, N)

\* C33: in every state, getTrendingItems(w, {limit: N}) and
\* getFeedTrending(F, w, {limit: N}) return at most min(N, k) items, exactly
\* min(N, k) when every in-window member has a document, and otherwise fall
\* short by at most the number of in-window members without one.
C33_CountOfTopNExisting ==
  \A t \in Windows : \A limit \in Limits :
    LET options == [limit |-> limit]
        N == TrendingLimit(options) IN
    /\ CountWithin(GetTrendingItems(t, options), trend[t], t, N)
    /\ \A f \in FeedIds :
         CountWithin(GetFeedTrending(f, t, options), feedTrend[f][t], t, N)
\* A viewed ID without a document takes the one slot of a limit-1 query
\* although a viewed item with a document is inside the window.
C33_Witness ==
  /\ AllIdle
  /\ \E t \in Windows :
       /\ GetTrendingItems(t, [limit |-> 1]) = <<>>
       /\ ExistingInWindowOf(trend[t], t) # {}

\* C34: with no call in progress, every item getFeedTrending(F, w) returns
\* has its ID in feed:F:items, for every feed F, window and limit; for a feed
\* that deleteFeed removed and that was not stored again, the result is
\* empty, whatever other feeds hold.
C34_FeedTrendingWithinFeed ==
  AllIdle =>
    \A f \in FeedIds : \A t \in Windows : \A limit \in Limits :
      LET out == GetFeedTrending(f, t, [limit |-> limit]) IN
      /\ \A i \in DOMAIN out : out[i].id \in Range(LRange(feedItems, f))
      /\ Absent(f) => out = <<>>

\* ------------------------------------------------- claims: source plugin
\* The keys (externalId) of the items the last execute call returned.
ReturnedKeys == {lastExec.items[k].externalId : k \in DOMAIN lastExec.items}
\* The keys the last execute call added to the processed IDs.
NewlyProcessed == Range(lastExec.processedItemIds) \ Range(lastExec.incoming)

\* C35: getFeedItems loses no item: after every successful execute call, each
\* key that is in the returned processedItemIds and was not in the incoming
\* ones is the key of a returned item, also when several feeds are polled and
\* the overall limit cuts the combined result.
C35_NoItemLost == (execCount > 0 /\ lastExec.error = <<>>) => NewlyProcessed \subseteq ReturnedKeys

\* C36: getFeedItems is incremental: over a sequence of execute calls without
\* forceRefresh, each of which receives the state the call before it returned,
\* no item key is returned by more than one call, however many distinct items
\* the calls have seen.
C36_NoKeyEmittedTwice == ~forced => ReturnedKeys \cap emitted = {}

NotInitialized == PluginExecutionError("Plugin not initialized", FALSE)

\* C37: execute proceeds past the "Plugin not initialized" check only between
\* a successful initialize and the next shutdown: a call made before any
\* initialize, after an initialize that failed or after shutdown fails with
\* PluginExecutionError "Plugin not initialized" and calls no client method.
C37_ExecuteOnlyWhenInitialized ==
  [][execCount' # execCount =>
       IF ready THEN lastExec'.error # <<NotInitialized>>
       ELSE lastExec'.error = <<NotInitialized>> /\ lastExec'.clientCalls = 0]_vars

\* ---------------------------------------------- claims: distributor plugin
AutoModeDone == AllIdle /\ \A w \in Workers : auto[w].pc = "idle"
Kept(r) == r.itemId \in Range(LRange(feedItems, r.feedId)) /\ Exists(Get(itemDoc, r.itemId))

=============================================================================
